---- MODULE Spec2Model ----
(***************************************************************************)
(* EcoMarga backend, flat-file version: the submission lifecycle           *)
(* (routes/submissions.js, the admin routes), the waste-bank reviews       *)
(* (routes/bankSampah.js) and the JSON-file storage helpers                *)
(* (utils/dataHelpers.js).                                                 *)
(*                                                                         *)
(* Numbers.  JavaScript numbers are modelled in fixed point:               *)
(*   - a weight is an integer number of 0.0001 kg (WeightScale per kg);    *)
(*   - an amount of money is an integer number of 0.00001 Rp               *)
(*     (MoneyScale per Rp), so that weight * price_per_kg and the 10% fee  *)
(*     of it are exact integers;                                           *)
(*   - a rating is an integer number of tenths.                            *)
(* Null (and an absent request field) is the integer Null.                 *)
(* Timestamps, addresses, images and driver fields are left out: no        *)
(* handler modelled here reads them.                                       *)
(***************************************************************************)
EXTENDS Integers, Sequences, FiniteSets, TLC

VARIABLES
  users,         \* contents of data/users.json
  submissions,   \* contents of data/submissions.json
  bankSampah,    \* contents of data/bankSampah.json
  res,           \* the response to the latest request: its route and status code
  body,          \* the payload of that response
  awaiting,      \* the async handlers suspended at an await, each with its locals
  NODE_ENV       \* process.env.NODE_ENV

vars == <<users, submissions, bankSampah, res, body, awaiting, NODE_ENV>>

-----------------------------------------------------------------------------
(* Bounds of the model *)

MaxSubmissions == 2     \* submissions that may be created
MaxEntries == 3         \* status_history entries over all submissions
MaxReviews == 3         \* reviews over all waste-bank points

-----------------------------------------------------------------------------
(* Fixed point *)

Null == 0 - 1
WeightScale == 10 * 1000           \* weight units per kg
MoneyScale == 100 * 1000           \* money units per Rp
Cent == MoneyScale \div 100        \* 0.01 Rp in money units

\* weight (units) * price (Rp/kg) as an amount of money (units)
Times(weight, price) == weight * price * (MoneyScale \div WeightScale)

\* Math.round-style rounding of an amount to 2 decimals of a Rupiah
Round2(amount) == ((amount + Cent \div 2) \div Cent) * Cent

-----------------------------------------------------------------------------
(* routes/submissions.js: configuration *)

WASTE_PRICING ==
  ("Botol Plastik" :> 3000) @@ ("Kardus" :> 2000) @@ ("Kaleng Aluminium" :> 8000) @@
  ("Kertas" :> 1500) @@ ("Besi" :> 5000) @@ ("Kaca" :> 1000) @@
  ("Plastik Campuran" :> 2500)

\* PLATFORM_FEE_PERCENTAGE = 0.10, as the divisor 1/0.10
PLATFORM_FEE_DIVISOR == 10

\* a fee of 1% in place of PLATFORM_FEE_PERCENTAGE
PlatformFeeOnePercent(value) == value \div 100

PlatformFee(value) == value \div PLATFORM_FEE_DIVISOR

\* the values the status validators of both PATCH routes accept
STATUS_ENUM == {"pending", "picked_up", "verified", "completed", "cancelled"}

EWALLET_TYPES == {"dana", "ovo", "gopay"}

\* isFloat({ min: 0.1, max: 100 }) on estimated_weight
MIN_WEIGHT == WeightScale \div 10
MAX_WEIGHT == 100 * WeightScale

-----------------------------------------------------------------------------
(* utils/dataHelpers.js *)

\* loadJsonFile: the parsed file, or defaultData when reading or parsing throws
loadJsonFile(file, defaultData, readOk) == IF readOk THEN file ELSE defaultData

\* saveJsonFile: the new file contents; a failed write leaves the file as it was
\* (the function then returns false, which no caller reads)
saveJsonFile(file, data, writeOk) == IF writeOk THEN data ELSE file

RECURSIVE MaxId(_)
MaxId(array) ==
  IF array = <<>> THEN 0
  ELSE LET m == MaxId(Tail(array)) IN IF Head(array).id > m THEN Head(array).id ELSE m

generateId(array) == IF Len(array) = 0 THEN 1 ELSE MaxId(array) + 1

\* Array.prototype.findIndex, 1-based; 0 for "not found" (-1 in the source)
findIndex(array, P(_)) ==
  IF \E i \in 1..Len(array) : P(array[i])
  THEN CHOOSE i \in 1..Len(array) : P(array[i]) /\ \A j \in 1..(i - 1) : ~P(array[j])
  ELSE 0

\* bcrypt.hash: the digest of a password, a value that is not the password
hash(password) == <<"$2a$12$", password>>

\* bcrypt.compare
compare(password, hashed) == hashed = hash(password)

defaultUsers ==
  << [id |-> 1, email |-> "admin@ecomarga.com", password |-> hash("admin123"),
      role |-> "admin", is_active |-> TRUE,
      ewallet_accounts |-> [t \in EWALLET_TYPES |-> "081234567890"]] >>

-----------------------------------------------------------------------------
(* routes/auth.js (flat-file version): the record a registration stores *)

NewUser(id, email, hashedPassword, phone) ==
  [id |-> id, email |-> email, password |-> hashedPassword,
   role |-> "user", is_active |-> TRUE,
   ewallet_accounts |-> [t \in EWALLET_TYPES |-> phone]]

\* the users file after two registrations
RegisteredUsers ==
  defaultUsers \o << NewUser(2, "a@x.id", hash("secret1"), "0811"),
                     NewUser(3, "b@x.id", hash("secret1"), "0822") >>

\* req.user of an authenticated request: the payload of a token issued to a user
Actors == { [id |-> users[i].id, role |-> users[i].role] : i \in 1..Len(users) }

-----------------------------------------------------------------------------
(* Storage outcomes of one request: whether each read and the write succeed *)

IO == [readSubs : BOOLEAN, readUsers : BOOLEAN, readBank : BOOLEAN, write : BOOLEAN]
NoFault == [readSubs |-> TRUE, readUsers |-> TRUE, readBank |-> TRUE, write |-> TRUE]

loadSubmissions(io) == loadJsonFile(submissions, <<>>, io.readSubs)
loadUsers(io) == loadJsonFile(users, defaultUsers, io.readUsers)
saveUsers(data, io) == saveJsonFile(users, data, io.write)
saveSubmissions(data, io) == saveJsonFile(submissions, data, io.write)

Response(route, code) == [route |-> route, code |-> code]

\* the payload of a response whose fields no property below reads
NoBody == [kind |-> "unmodelled"]

-----------------------------------------------------------------------------
(* routes/submissions.js: POST / *)

NoStatus == "undefined"          \* a request without a status field

\* submissionValidation with the isFloat({ min: 0.1, max: 100 }) rule left out
submissionValidationNoWeight(waste_type, estimated_weight, ewallet_type) ==
  /\ waste_type \in DOMAIN WASTE_PRICING
  /\ ewallet_type \in EWALLET_TYPES

submissionValidation(waste_type, estimated_weight, ewallet_type) ==
  /\ waste_type \in DOMAIN WASTE_PRICING
  /\ estimated_weight >= MIN_WEIGHT /\ estimated_weight <= MAX_WEIGHT
  /\ ewallet_type \in EWALLET_TYPES

newSubmission(subs, user, waste_type, estimated_weight, ewallet_type) ==
  LET price_per_kg == WASTE_PRICING[waste_type]
      estimated_value == Times(estimated_weight, price_per_kg)
      platform_fee == PlatformFee(estimated_value)
  IN [id |-> generateId(subs),
      user_id |-> user.id,
      waste_type |-> waste_type,
      estimated_weight |-> estimated_weight,
      actual_weight |-> Null,
      price_per_kg |-> price_per_kg,
      estimated_value |-> estimated_value,
      actual_value |-> Null,
      platform_fee |-> platform_fee,
      estimated_transfer |-> estimated_value - platform_fee,
      actual_transfer |-> Null,
      ewallet_type |-> ewallet_type,
      status |-> "pending",
      status_history |->
        << [status |-> "pending", note |-> "Submission dibuat", updated_by |-> Null] >>]

TotalEntries(subs) ==
  LET RECURSIVE Sum(_)
      Sum(i) == IF i = 0 THEN 0 ELSE Len(subs[i].status_history) + Sum(i - 1)
  IN Sum(Len(subs))

CreateSubmission(actor, waste_type, estimated_weight, ewallet_type, io) ==
  LET subs == loadSubmissions(io)
      usrs == loadUsers(io)
      userIndex == findIndex(usrs, LAMBDA u : u.id = actor.id)
  IN IF ~submissionValidation(waste_type, estimated_weight, ewallet_type)
     THEN /\ res' = Response("create", 400)
          /\ UNCHANGED <<users, submissions, bankSampah>>
     ELSE IF userIndex = 0
     THEN /\ res' = Response("create", 404)
          /\ UNCHANGED <<users, submissions, bankSampah>>
     ELSE IF usrs[userIndex].ewallet_accounts[ewallet_type] = ""
     THEN /\ res' = Response("create", 400)
          /\ UNCHANGED <<users, submissions, bankSampah>>
     ELSE LET new == newSubmission(subs, usrs[userIndex], waste_type,
                                   estimated_weight, ewallet_type)
          IN /\ Len(subs) < MaxSubmissions
             /\ TotalEntries(subs) < MaxEntries
             /\ submissions' = saveSubmissions(Append(subs, new), io)
             /\ res' = Response("create", 201)
             /\ UNCHANGED <<users, bankSampah>>

-----------------------------------------------------------------------------
(* routes/submissions.js: PATCH /:id/status *)

\* isFloat({ min: 0 }) on an optional actual_weight
optionalWeightValid(actual_weight) == actual_weight = Null \/ actual_weight >= 0

statusValidation(status, actual_weight) ==
  /\ status \in STATUS_ENUM
  /\ optionalWeightValid(actual_weight)

\* if (actual_weight): a number other than 0
Truthy(actual_weight) == actual_weight # Null /\ actual_weight # 0

historyEntry(status, note, actor) ==
  [status |-> status, note |-> note, updated_by |-> actor.id]

\* case 'verified' with the price read from the pricing table again
verifiedFinancialsTablePrice(submission, actual_weight) ==
  LET actual_value == Times(actual_weight, WASTE_PRICING[submission.waste_type])
      platform_fee == PlatformFee(actual_value)
  IN [submission EXCEPT !.actual_weight = actual_weight,
                        !.actual_value = actual_value,
                        !.platform_fee = platform_fee,
                        !.actual_transfer = actual_value - platform_fee]

\* case 'verified' with the assignment of actual_weight left out
verifiedFinancialsNoWeight(submission, actual_weight) ==
  LET actual_value == Times(actual_weight, submission.price_per_kg)
      platform_fee == PlatformFee(actual_value)
  IN [submission EXCEPT !.actual_value = actual_value,
                        !.platform_fee = platform_fee,
                        !.actual_transfer = actual_value - platform_fee]

\* case 'verified': the financial fields recomputed from the actual weight
verifiedFinancials(submission, actual_weight) ==
  LET actual_value == Times(actual_weight, submission.price_per_kg)
      platform_fee == PlatformFee(actual_value)
  IN [submission EXCEPT !.actual_weight = actual_weight,
                        !.actual_value = actual_value,
                        !.platform_fee = platform_fee,
                        !.actual_transfer = actual_value - platform_fee]

\* the body of the handler from "Update status" to the end of the switch
applyStatus(submission, status, note, actual_weight, actor) ==
  LET s1 == [submission EXCEPT
               !.status = status,
               !.status_history = Append(@, historyEntry(status, note, actor))]
  IN IF status = "verified" /\ Truthy(actual_weight)
     THEN verifiedFinancials(s1, actual_weight)
     ELSE s1

UpdateStatus(actor, id, status, actual_weight, io) ==
  LET subs == loadSubmissions(io)
      submissionIndex == findIndex(subs, LAMBDA sub : sub.id = id)
  IN IF ~statusValidation(status, actual_weight)
     THEN /\ res' = Response("status", 400)
          /\ UNCHANGED <<users, submissions, bankSampah>>
     ELSE IF submissionIndex = 0
     THEN /\ res' = Response("status", 404)
          /\ UNCHANGED <<users, submissions, bankSampah>>
     ELSE /\ TotalEntries(subs) < MaxEntries
          /\ submissions' = saveSubmissions(
               [subs EXCEPT ![submissionIndex] =
                  applyStatus(@, status, "", actual_weight, actor)], io)
          /\ res' = Response("status", 200)
          /\ UNCHANGED <<users, bankSampah>>

-----------------------------------------------------------------------------
(* routes/submissions.js: PATCH /:id/cancel *)

\* the cancellation with the status_history.push left out
applyCancelNoPush(submission, actor) ==
  [submission EXCEPT !.status = "cancelled"]

applyCancel(submission, actor) ==
  [submission EXCEPT
     !.status = "cancelled",
     !.status_history =
        Append(@, historyEntry("cancelled", "Dibatalkan oleh pengguna", actor))]

\* the findIndex predicate with the owner test left out
anySubmission(sub, id, actor) == sub.id = id

\* the findIndex predicate of the handler
ownSubmission(sub, id, actor) == sub.id = id /\ sub.user_id = actor.id

CancelSubmission(actor, id, io) ==
  LET subs == loadSubmissions(io)
      submissionIndex == findIndex(subs, LAMBDA sub : ownSubmission(sub, id, actor))
  IN IF submissionIndex = 0
     THEN /\ res' = Response("cancel", 404)
          /\ UNCHANGED <<users, submissions, bankSampah>>
     ELSE IF subs[submissionIndex].status # "pending"
     THEN /\ res' = Response("cancel", 400)
          /\ UNCHANGED <<users, submissions, bankSampah>>
     ELSE /\ TotalEntries(subs) < MaxEntries
          /\ submissions' = saveSubmissions(
               [subs EXCEPT ![submissionIndex] = applyCancel(@, actor)], io)
          /\ res' = Response("cancel", 200)
          /\ UNCHANGED <<users, bankSampah>>

-----------------------------------------------------------------------------
(* routes/admin.js: PATCH /submissions/:id, mounted behind authorizeAdmin *)

authorizeAdmin(actor) == actor.role = "admin"

adminSubmissionValidation(status, actual_weight) ==
  /\ status = NoStatus \/ status \in STATUS_ENUM
  /\ optionalWeightValid(actual_weight)

\* if (actual_weight !== undefined): the financial fields recomputed
adminFinancialsStaleFee(submission, actual_weight) ==
  LET actual_value == Times(actual_weight, submission.price_per_kg)
  IN [submission EXCEPT !.actual_weight = actual_weight,
                        !.actual_value = actual_value,
                        !.actual_transfer = actual_value - submission.platform_fee]

adminFinancials(submission, actual_weight) ==
  LET actual_value == Times(actual_weight, submission.price_per_kg)
      platform_fee == actual_value \div 10        \* actual_value * 0.10
  IN [submission EXCEPT !.actual_weight = actual_weight,
                        !.actual_value = actual_value,
                        !.platform_fee = platform_fee,
                        !.actual_transfer = actual_value - platform_fee]

\* the handler with the status_history.push left out
applyAdminUpdateNoPush(submission, status, actual_weight, actor) ==
  LET s1 == IF status # NoStatus THEN [submission EXCEPT !.status = status]
            ELSE submission
  IN IF actual_weight # Null THEN adminFinancials(s1, actual_weight) ELSE s1

\* the body of the handler from "Update fields" to the status history
applyAdminUpdate(submission, status, actual_weight, actor) ==
  LET s1 == IF status # NoStatus THEN [submission EXCEPT !.status = status]
            ELSE submission
      s2 == IF actual_weight # Null THEN adminFinancials(s1, actual_weight) ELSE s1
  IN IF status # NoStatus
     THEN [s2 EXCEPT !.status_history =
             Append(@, historyEntry(status, "Status diubah oleh admin", actor))]
     ELSE s2

\* the handler with the return of the validation branch left out
AdminUpdateSubmissionNoReturn(actor, id, status, actual_weight, io) ==
  LET subs == loadSubmissions(io)
      submissionIndex == findIndex(subs, LAMBDA s : s.id = id)
  IN IF ~authorizeAdmin(actor)
     THEN /\ res' = Response("admin", 403)
          /\ UNCHANGED <<users, submissions, bankSampah>>
     ELSE IF submissionIndex = 0
     THEN /\ res' = Response("admin", 404)
          /\ UNCHANGED <<users, submissions, bankSampah>>
     ELSE /\ status # NoStatus => TotalEntries(subs) < MaxEntries
          /\ submissions' = saveSubmissions(
               [subs EXCEPT ![submissionIndex] =
                  applyAdminUpdate(@, status, actual_weight, actor)], io)
          /\ res' = Response("admin",
                      IF adminSubmissionValidation(status, actual_weight)
                      THEN 200 ELSE 400)
          /\ UNCHANGED <<users, bankSampah>>

AdminUpdateSubmission(actor, id, status, actual_weight, io) ==
  LET subs == loadSubmissions(io)
      submissionIndex == findIndex(subs, LAMBDA s : s.id = id)
  IN IF ~authorizeAdmin(actor)
     THEN /\ res' = Response("admin", 403)
          /\ UNCHANGED <<users, submissions, bankSampah>>
     ELSE IF ~adminSubmissionValidation(status, actual_weight)
     THEN /\ res' = Response("admin", 400)
          /\ UNCHANGED <<users, submissions, bankSampah>>
     ELSE IF submissionIndex = 0
     THEN /\ res' = Response("admin", 404)
          /\ UNCHANGED <<users, submissions, bankSampah>>
     ELSE /\ status # NoStatus => TotalEntries(subs) < MaxEntries
          /\ submissions' = saveSubmissions(
               [subs EXCEPT ![submissionIndex] =
                  applyAdminUpdate(@, status, actual_weight, actor)], io)
          /\ res' = Response("admin", 200)
          /\ UNCHANGED <<users, bankSampah>>

-----------------------------------------------------------------------------
(* routes/users.js: PUT /profile.  Of the body only ewallet_accounts is
   modelled (isObject: whether the field holds an object); nama, phone and
   address are fields no handler modelled here reads. *)

profileValidation(b) == b.isObject

\* { ...users[userIndex].ewallet_accounts, ...ewallet_accounts }
mergeEwallet(old, ewallet_accounts) ==
  [t \in DOMAIN old \cup DOMAIN ewallet_accounts |->
     IF t \in DOMAIN ewallet_accounts THEN ewallet_accounts[t] ELSE old[t]]

UpdateProfile(actor, b, io) ==
  LET usrs == loadUsers(io)
      userIndex == findIndex(usrs, LAMBDA u : u.id = actor.id)
  IN IF ~profileValidation(b)
     THEN /\ res' = Response("profile", 400)
          /\ UNCHANGED <<users, submissions, bankSampah>>
     ELSE IF userIndex = 0
     THEN /\ res' = Response("profile", 404)
          /\ UNCHANGED <<users, submissions, bankSampah>>
     ELSE /\ users' = saveUsers(
               [usrs EXCEPT ![userIndex].ewallet_accounts =
                  mergeEwallet(@, b.ewallet_accounts)], io)
          /\ res' = Response("profile", 200)
          /\ UNCHANGED <<submissions, bankSampah>>

-----------------------------------------------------------------------------
(* utils/dataHelpers.js: the waste-bank points a missing file stands for.
   rating is in tenths; the seeded points carry no reviews array.
   A coordinate is an integer number of 0.0001 degree. *)

KOORDINAT ==
  (1 :> [latitude |-> 0 - 69930, longitude |-> 1104203]) @@
  (2 :> [latitude |-> 0 - 69660, longitude |-> 1104103]) @@
  (3 :> [latitude |-> 0 - 70051, longitude |-> 1104381])

\* the texts and the accepted waste types of the seeded points
SEED ==
  (1 :> [nama |-> "Bank Sampah Bersih Sejahtera",
         alamat |-> "Jl. Pahlawan No. 123, Semarang Tengah",
         deskripsi |-> "Bank sampah terpercaya dengan layanan jemput door-to-door",
         jenis_sampah_diterima |->
           {"Botol Plastik", "Kardus", "Kaleng Aluminium", "Kertas", "Kaca"}]) @@
  (2 :> [nama |-> "Bank Sampah Hijau Lestari",
         alamat |-> "Jl. Pemuda No. 456, Semarang Utara",
         deskripsi |-> "Spesialis pengolahan sampah plastik dengan teknologi modern",
         jenis_sampah_diterima |->
           {"Botol Plastik", "Kardus", "Kaleng Aluminium", "Kertas", "Besi",
            "Plastik Campuran"}]) @@
  (3 :> [nama |-> "Bank Sampah Mandiri Sejahtera",
         alamat |-> "Jl. Diponegoro No. 789, Semarang Selatan",
         deskripsi |-> "Bank sampah dengan fokus pada kertas dan logam berkualitas tinggi",
         jenis_sampah_diterima |-> {"Kardus", "Kertas", "Kaca", "Besi"}])

BankSampah(id, rating, total_reviews) ==
  [id |-> id, nama |-> SEED[id].nama, alamat |-> SEED[id].alamat,
   deskripsi |-> SEED[id].deskripsi,
   jenis_sampah_diterima |-> SEED[id].jenis_sampah_diterima,
   kota |-> "Semarang", koordinat |-> KOORDINAT[id],
   is_active |-> TRUE, rating |-> rating, total_reviews |-> total_reviews,
   has_reviews |-> FALSE, reviews |-> <<>>]

defaultBankSampah ==
  << BankSampah(1, 45, 127), BankSampah(2, 42, 89), BankSampah(3, 47, 203) >>

loadBankSampah(io) == loadJsonFile(bankSampah, defaultBankSampah, io.readBank)
saveBankSampah(data, io) == saveJsonFile(bankSampah, data, io.write)

-----------------------------------------------------------------------------
(* routes/bankSampah.js: POST /:id/review, mounted behind optionalAuth *)

\* req.user of a request without a valid token
Anonymous == [id |-> Null, role |-> "none"]

\* isInt({ min: 1, max: 5 })
reviewValidation(rating) == rating >= 1 /\ rating <= 5

RECURSIVE totalRating(_)
totalRating(reviews) ==
  IF reviews = <<>> THEN 0 ELSE Head(reviews).rating + totalRating(Tail(reviews))

\* parseFloat((totalRating / length).toFixed(1)), in tenths: the nearest tenth,
\* the larger one at a tie (ties are quarters here, which toFixed sees exactly)
averageRating(reviews) ==
  (2 * 10 * totalRating(reviews) + Len(reviews)) \div (2 * Len(reviews))

\* the findIndex predicate with the review id compared instead of the user id
sameReviewId(r, actor) == r.id = actor.id

\* the findIndex predicate of "Check if user already reviewed"
sameReviewer(r, actor) == r.user_id = actor.id

\* the body of the handler from "Initialize reviews array" to the recalculation
applyReview(point, actor, rating) ==
  LET reviews == IF point.has_reviews THEN point.reviews ELSE <<>>
      existingReviewIndex == findIndex(reviews, LAMBDA r : sameReviewer(r, actor))
      newReview ==
        [id |-> IF existingReviewIndex > 0 THEN reviews[existingReviewIndex].id
                ELSE generateId(reviews),
         user_id |-> actor.id,
         rating |-> rating]
      newReviews ==
        IF existingReviewIndex > 0
        THEN [reviews EXCEPT ![existingReviewIndex] = newReview]
        ELSE Append(reviews, newReview)
  IN [point EXCEPT
        !.has_reviews = TRUE,
        !.reviews = newReviews,
        !.total_reviews = IF existingReviewIndex > 0 THEN @ ELSE @ + 1,
        !.rating = averageRating(newReviews)]

TotalReviews(points) ==
  LET RECURSIVE Sum(_)
      Sum(i) == IF i = 0 THEN 0 ELSE Len(points[i].reviews) + Sum(i - 1)
  IN Sum(Len(points))

SubmitReview(actor, id, rating, io) ==
  LET bankSampahList == loadBankSampah(io)
      bankSampahIndex ==
        findIndex(bankSampahList, LAMBDA bs : bs.id = id /\ bs.is_active)
  IN IF actor = Anonymous
     THEN /\ res' = Response("review", 401)
          /\ UNCHANGED <<users, submissions, bankSampah>>
     ELSE IF ~reviewValidation(rating)
     THEN /\ res' = Response("review", 400)
          /\ UNCHANGED <<users, submissions, bankSampah>>
     ELSE IF bankSampahIndex = 0
     THEN /\ res' = Response("review", 404)
          /\ UNCHANGED <<users, submissions, bankSampah>>
     ELSE LET point == bankSampahList[bankSampahIndex]
              updated == applyReview(point, actor, rating)
          IN /\ Len(updated.reviews) > Len(point.reviews) =>
                  TotalReviews(bankSampahList) < MaxReviews
             /\ bankSampah' = saveBankSampah(
                  [bankSampahList EXCEPT ![bankSampahIndex] = updated], io)
             /\ res' = Response("review",
                         IF Len(updated.reviews) > Len(point.reviews) THEN 201 ELSE 200)
             /\ UNCHANGED <<users, submissions>>

-----------------------------------------------------------------------------
(* routes/bankSampah.js: GET / and GET /nearby/:latitude/:longitude.
   A distance is an integer number of 0.0001 km (DistScale per km). *)

DistScale == 10 * 1000

\* parseFloat of a text that is no number; no latitude or distance has this value
NaN == 0 - 10 * 1000 * 1000

\* the query points of the requests explored
QueryPoints ==
  { [latitude |-> 0 - 70000, longitude |-> 1104000],
    [latitude |-> 0 - 69900, longitude |-> 1104200] }

\* calculateDistance: the value of the haversine formula of the source
\* (R = 6371, IEEE doubles) for the query points above and the coordinates of
\* the seeded points, to the nearest 0.0001 km: 2.371805, 3.947846, 4.242993
\* and 0.335224, 2.875418, 2.609548 km
HaversineKm ==
  (<<0 - 70000, 1104000, 0 - 69930, 1104203>> :> 23718) @@
  (<<0 - 70000, 1104000, 0 - 69660, 1104103>> :> 39478) @@
  (<<0 - 70000, 1104000, 0 - 70051, 1104381>> :> 42430) @@
  (<<0 - 69900, 1104200, 0 - 69930, 1104203>> :> 3352) @@
  (<<0 - 69900, 1104200, 0 - 69660, 1104103>> :> 28754) @@
  (<<0 - 69900, 1104200, 0 - 70051, 1104381>> :> 26095)

calculateDistance(lat1, lon1, lat2, lon2) ==
  IF lat1 = NaN \/ lon1 = NaN THEN NaN ELSE HaversineKm[<<lat1, lon1, lat2, lon2>>]

\* parseFloat(x.toFixed(2)): the nearest 0.01 km
toFixed2(x) == IF x = NaN THEN NaN ELSE ((x + 50) \div 100) * 100

\* a <= b of JavaScript numbers: false when either is NaN
LessEq(a, b) == a # NaN /\ b # NaN /\ a <= b

\* String.prototype.toLowerCase on the texts that occur below; every other
\* text that occurs is in lower case already
LOWER ==
  ("Semarang" :> "semarang") @@ ("Solo" :> "solo") @@
  ("Sejahtera" :> "sejahtera") @@ ("A@x.id" :> "a@x.id") @@
  ("Bank Sampah Bersih Sejahtera" :> "bank sampah bersih sejahtera") @@
  ("Bank Sampah Hijau Lestari" :> "bank sampah hijau lestari") @@
  ("Bank Sampah Mandiri Sejahtera" :> "bank sampah mandiri sejahtera") @@
  ("Jl. Pahlawan No. 123, Semarang Tengah" :> "jl. pahlawan no. 123, semarang tengah") @@
  ("Jl. Pemuda No. 456, Semarang Utara" :> "jl. pemuda no. 456, semarang utara") @@
  ("Jl. Diponegoro No. 789, Semarang Selatan" :> "jl. diponegoro no. 789, semarang selatan") @@
  ("Bank sampah terpercaya dengan layanan jemput door-to-door" :>
     "bank sampah terpercaya dengan layanan jemput door-to-door") @@
  ("Spesialis pengolahan sampah plastik dengan teknologi modern" :>
     "spesialis pengolahan sampah plastik dengan teknologi modern") @@
  ("Bank sampah dengan fokus pada kertas dan logam berkualitas tinggi" :>
     "bank sampah dengan fokus pada kertas dan logam berkualitas tinggi")

toLowerCase(str) == IF str \in DOMAIN LOWER THEN LOWER[str] ELSE str

\* String.prototype.includes of the lower-case texts of the seeded points, for
\* the search terms "sejahtera" and "plastik"
includes(str, searchString) ==
  \/ /\ searchString = "sejahtera"
     /\ str \in {"bank sampah bersih sejahtera", "bank sampah mandiri sejahtera"}
  \/ /\ searchString = "plastik"
     /\ str = "spesialis pengolahan sampah plastik dengan teknologi modern"

\* a.nama.localeCompare(b.nama) of the seeded names, which sort in the order
\* of their ids
localeCompare(a, b) == a.id - b.id

\* { ...bs, distance }: the fields of a point a property below reads
withDistance(bs, distance) ==
  [id |-> bs.id, nama |-> bs.nama, kota |-> bs.kota, koordinat |-> bs.koordinat,
   is_active |-> bs.is_active, rating |-> bs.rating, distance |-> distance]

\* Array.prototype.sort with a compare function: a stable insertion sort
sort(array, compareFn(_, _)) ==
  LET RECURSIVE Insert(_, _)
      Insert(sorted, x) ==
        IF sorted = <<>> THEN <<x>>
        ELSE IF compareFn(sorted[Len(sorted)], x) <= 0 THEN Append(sorted, x)
        ELSE Append(Insert(SubSeq(sorted, 1, Len(sorted) - 1), x), sorted[Len(sorted)])
      RECURSIVE Sorted(_)
      Sorted(n) == IF n = 0 THEN <<>> ELSE Insert(Sorted(n - 1), array[n])
  IN Sorted(Len(array))

\* a slice that always starts at the first element
sliceFromStart(array, from, to) ==
  SubSeq(array, 1, IF to - from < Len(array) THEN to - from ELSE Len(array))

\* Array.prototype.slice(from, to), 0-based and end-exclusive
slice(array, from, to) ==
  SubSeq(array, from + 1, IF to < Len(array) THEN to ELSE Len(array))

\* Array.prototype.map
map(array, f(_)) == [i \in 1..Len(array) |-> f(array[i])]

isActive(bs) == bs.is_active

\* "Location-based filtering": the distance is rounded by toFixed(2) and the
\* rounded distance is compared with the radius
filterByRadius(list, userLat, userLon, maxRadius) ==
  LET located == map(list, LAMBDA bs : withDistance(bs,
                       toFixed2(calculateDistance(userLat, userLon,
                                  bs.koordinat.latitude, bs.koordinat.longitude))))
  IN SelectSeq(located, LAMBDA bs : LessEq(bs.distance, maxRadius))

\* filters_applied of the answer: the filters of the query, an absent text
\* filter echoed as null (the empty text here), an absent location as null
filtersApplied(q) ==
  [search |-> q.search, kota |-> q.kota, jenis_sampah |-> q.jenis_sampah,
   location |-> IF q.latitude # Null /\ q.longitude # Null
                THEN [latitude |-> q.latitude, longitude |-> q.longitude,
                      radius |-> IF q.radius = Null THEN 10 * DistScale ELSE q.radius]
                ELSE [latitude |-> Null, longitude |-> Null, radius |-> Null],
   sort_by |-> q.sort_by]

\* GET /: q holds the query parameters, Null for an absent one
GetBankSampah(q, io) ==
  LET active == SelectSeq(loadBankSampah(io), isActive)
      searchLower == toLowerCase(q.search)
      found == IF q.search # ""
               THEN SelectSeq(active,
                      LAMBDA bs : \/ includes(toLowerCase(bs.nama), searchLower)
                                  \/ includes(toLowerCase(bs.alamat), searchLower)
                                  \/ includes(toLowerCase(bs.deskripsi), searchLower))
               ELSE active
      inCity == IF q.kota # ""
                THEN SelectSeq(found,
                       LAMBDA bs : toLowerCase(bs.kota) = toLowerCase(q.kota))
                ELSE found
      accepting == IF q.jenis_sampah # ""
                   THEN SelectSeq(inCity,
                          LAMBDA bs : q.jenis_sampah \in bs.jenis_sampah_diterima)
                   ELSE inCity
      hasLocation == q.latitude # Null /\ q.longitude # Null
      maxRadius == IF q.radius = Null THEN 10 * DistScale ELSE q.radius
      inRadius == IF hasLocation
                  THEN filterByRadius(accepting, q.latitude, q.longitude, maxRadius)
                  ELSE map(accepting, LAMBDA bs : withDistance(bs, Null))
      sorted == IF q.sort_by = "distance"
                THEN IF hasLocation
                     THEN sort(inRadius, LAMBDA a, b : a.distance - b.distance)
                     ELSE inRadius
                ELSE IF q.sort_by = "nama"
                THEN sort(inRadius, localeCompare)
                ELSE sort(inRadius, LAMBDA a, b : b.rating - a.rating)
      page == IF q.page = Null THEN 1 ELSE q.page
      limit == IF q.limit = Null THEN 10 ELSE q.limit
      offset == (page - 1) * limit
  IN /\ res' = Response("search", 200)
     /\ body' = [kind |-> "list",
                 bank_sampah |-> slice(sorted, offset, offset + limit),
                 current_page |-> page,
                 per_page |-> limit,
                 total |-> Len(sorted),
                 filters_applied |-> filtersApplied(q)]
     /\ UNCHANGED <<users, submissions, bankSampah>>

\* GET /nearby/:latitude/:longitude
GetNearby(latitude, longitude, radius, limit, io) ==
  LET maxRadius == IF radius = Null THEN 5 * DistScale ELSE radius
      top == IF limit = Null THEN 5 ELSE limit
      active == SelectSeq(loadBankSampah(io), isActive)
      located == map(active, LAMBDA bs : withDistance(bs,
                       calculateDistance(latitude, longitude,
                         bs.koordinat.latitude, bs.koordinat.longitude)))
      inRadius == SelectSeq(located, LAMBDA bs : LessEq(bs.distance, maxRadius))
      sorted == sort(inRadius, LAMBDA a, b : a.distance - b.distance)
      nearbyBankSampah ==
        map(slice(sorted, 0, top),
            LAMBDA bs : withDistance(bs, toFixed2(bs.distance)))
  IN IF latitude = NaN \/ longitude = NaN
     THEN /\ res' = Response("nearby", 400)
          /\ body' = NoBody
          /\ UNCHANGED <<users, submissions, bankSampah>>
     ELSE /\ res' = Response("nearby", 200)
          /\ body' = [kind |-> "list",
                      bank_sampah |-> nearbyBankSampah,
                      total |-> Len(nearbyBankSampah)]
          /\ UNCHANGED <<users, submissions, bankSampah>>

-----------------------------------------------------------------------------
(* routes/auth.js, routes/users.js and PATCH /admin/users/:id/status: the
   requests that write the users file.  A handler that awaits bcrypt is two
   steps: the first reads the file into its own array and suspends, the
   second resumes with that array and saves it.  Requests of other clients
   run between the two. *)

MaxUsers == 4           \* user records that registration may create up to
MaxAwaiting == 2        \* handlers suspended at an await at one time
MaxNotes == 1           \* admin_notes entries over all users

\* const { password: _, ...userResponse } = user
withoutPassword(user) == [f \in DOMAIN user \ {"password"} |-> user[f]]

\* the payload of a response that carries a user
UserBody(user) == [kind |-> "user", user |-> user]

\* express-validator isEmail, on the addresses the requests below send
isEmail(email) == email \notin {"", "not-an-email"}

registerValidation(email, password) == isEmail(email) /\ Len(password) >= 6

loginValidation(email, password) == isEmail(email) /\ password # ""

passwordValidation(current_password, new_password, confirm_password) ==
  /\ current_password # ""
  /\ Len(new_password) >= 6
  /\ confirm_password = new_password

\* the local variables of a handler suspended at an await
Suspended(op, id, usrs, email, password, new_password) ==
  [op |-> op, id |-> id, users |-> usrs, email |-> email,
   password |-> password, new_password |-> new_password]

\* POST /auth/register up to "await bcrypt.hash"
RegisterBegin(email, password, io) ==
  LET usrs == loadUsers(io)
  IN IF ~registerValidation(email, password)
     THEN /\ res' = Response("auth/register", 400)
          /\ body' = NoBody
          /\ UNCHANGED <<users, awaiting>>
     ELSE IF \E i \in 1..Len(usrs) : usrs[i].email = email
     THEN /\ res' = Response("auth/register", 400)
          /\ body' = NoBody
          /\ UNCHANGED <<users, awaiting>>
     ELSE /\ awaiting' = awaiting \cup
                           {Suspended("register", Null, usrs, email, password, "")}
          /\ UNCHANGED <<users, res, body>>

\* POST /auth/register after the await; the phone number is the same in every
\* request
RegisterEnd(k, io) ==
  LET newUser == NewUser(generateId(k.users), toLowerCase(k.email),
                         hash(k.password), "0844")
  IN /\ users' = saveUsers(Append(k.users, newUser), io)
     /\ res' = Response("auth/register", 201)
     /\ body' = UserBody(withoutPassword(newUser))
     /\ awaiting' = awaiting \ {k}

\* POST /auth/login up to "await bcrypt.compare"
LoginBegin(email, password, io) ==
  LET usrs == loadUsers(io)
      i == findIndex(usrs, LAMBDA u : u.email = toLowerCase(email))
  IN IF ~loginValidation(email, password)
     THEN /\ res' = Response("auth/login", 400)
          /\ body' = NoBody
          /\ UNCHANGED <<users, awaiting>>
     ELSE IF i = 0 \/ ~usrs[i].is_active
     THEN /\ res' = Response("auth/login", 401)
          /\ body' = NoBody
          /\ UNCHANGED <<users, awaiting>>
     ELSE /\ awaiting' = awaiting \cup
                           {Suspended("login", usrs[i].id, usrs, email, password, "")}
          /\ UNCHANGED <<users, res, body>>

\* POST /auth/login after the await: last_login is a timestamp, which is not
\* modelled, and the array read before the await is saved
LoginEnd(k, io) ==
  LET i == findIndex(k.users, LAMBDA u : u.id = k.id)
  IN IF ~compare(k.password, k.users[i].password)
     THEN /\ res' = Response("auth/login", 401)
          /\ body' = NoBody
          /\ awaiting' = awaiting \ {k}
          /\ UNCHANGED users
     ELSE /\ users' = saveUsers(k.users, io)
          /\ res' = Response("auth/login", 200)
          /\ body' = UserBody(withoutPassword(k.users[i]))
          /\ awaiting' = awaiting \ {k}

\* PATCH /users/password up to the first await
ChangePasswordBegin(actor, current_password, new_password, confirm_password, io) ==
  LET usrs == loadUsers(io)
      userIndex == findIndex(usrs, LAMBDA u : u.id = actor.id)
  IN IF ~passwordValidation(current_password, new_password, confirm_password)
     THEN /\ res' = Response("users/password", 400)
          /\ body' = NoBody
          /\ UNCHANGED <<users, awaiting>>
     ELSE IF userIndex = 0
     THEN /\ res' = Response("users/password", 404)
          /\ body' = NoBody
          /\ UNCHANGED <<users, awaiting>>
     ELSE /\ awaiting' = awaiting \cup
                           {Suspended("password", actor.id, usrs, "",
                                      current_password, new_password)}
          /\ UNCHANGED <<users, res, body>>

\* PATCH /users/password after its awaits, with the file read again before
\* the write
ChangePasswordEndReloading(k, io) ==
  LET usrs == loadUsers(io)
      userIndex == findIndex(usrs, LAMBDA u : u.id = k.id)
  IN IF ~compare(k.password, k.users[findIndex(k.users, LAMBDA u : u.id = k.id)].password)
     THEN /\ res' = Response("users/password", 400)
          /\ body' = NoBody
          /\ awaiting' = awaiting \ {k}
          /\ UNCHANGED users
     ELSE /\ users' = saveUsers(
                        [usrs EXCEPT ![userIndex].password = hash(k.new_password)], io)
          /\ res' = Response("users/password", 200)
          /\ body' = NoBody
          /\ awaiting' = awaiting \ {k}

\* PATCH /users/password after its awaits (no file access lies between the
\* comparison and the hashing)
ChangePasswordEnd(k, io) ==
  LET userIndex == findIndex(k.users, LAMBDA u : u.id = k.id)
  IN IF ~compare(k.password, k.users[userIndex].password)
     THEN /\ res' = Response("users/password", 400)
          /\ body' = NoBody
          /\ awaiting' = awaiting \ {k}
          /\ UNCHANGED users
     ELSE /\ users' = saveUsers(
                        [k.users EXCEPT ![userIndex].password = hash(k.new_password)], io)
          /\ res' = Response("users/password", 200)
          /\ body' = NoBody
          /\ awaiting' = awaiting \ {k}

\* DELETE /users/account up to "await bcrypt.compare"
DeleteAccountBegin(actor, password, io) ==
  LET usrs == loadUsers(io)
      userIndex == findIndex(usrs, LAMBDA u : u.id = actor.id)
  IN IF password = ""
     THEN /\ res' = Response("users/account", 400)
          /\ body' = NoBody
          /\ UNCHANGED <<users, awaiting>>
     ELSE IF userIndex = 0
     THEN /\ res' = Response("users/account", 404)
          /\ body' = NoBody
          /\ UNCHANGED <<users, awaiting>>
     ELSE /\ awaiting' = awaiting \cup
                           {Suspended("delete", actor.id, usrs, "", password, "")}
          /\ UNCHANGED <<users, res, body>>

\* DELETE /users/account after the await: the soft delete
\* POST /auth/refresh: a refresh token is absent (Null), does not verify (0),
\* or verifies and carries the id of the user it was issued to
RefreshToken(refreshToken, io) ==
  LET usrs == loadUsers(io)
      i == findIndex(usrs, LAMBDA u : u.id = refreshToken)
  IN IF refreshToken = Null
     THEN /\ res' = Response("auth/refresh", 401)
          /\ body' = NoBody
     ELSE IF refreshToken = 0
     THEN /\ res' = Response("auth/refresh", 403)
          /\ body' = NoBody
     ELSE IF i = 0 \/ ~usrs[i].is_active
     THEN /\ res' = Response("auth/refresh", 403)
          /\ body' = NoBody
     ELSE /\ res' = Response("auth/refresh", 200)
          /\ body' = [kind |-> "tokens", id |-> usrs[i].id]

DeleteAccountEnd(k, io) ==
  LET userIndex == findIndex(k.users, LAMBDA u : u.id = k.id)
  IN IF ~compare(k.password, k.users[userIndex].password)
     THEN /\ res' = Response("users/account", 400)
          /\ body' = NoBody
          /\ awaiting' = awaiting \ {k}
          /\ UNCHANGED users
     ELSE /\ users' = saveUsers([k.users EXCEPT ![userIndex].is_active = FALSE], io)
          /\ res' = Response("users/account", 200)
          /\ body' = NoBody
          /\ awaiting' = awaiting \ {k}

\* users[userIndex].admin_notes.push({ action, reason, admin_id, timestamp })
pushAdminNote(user, is_active, admin_id) ==
  LET note == [action |-> IF is_active THEN "activated" ELSE "deactivated",
               admin_id |-> admin_id]
      notes == IF "admin_notes" \in DOMAIN user THEN user.admin_notes ELSE <<>>
  IN [f \in DOMAIN user \cup {"admin_notes"} |->
        IF f = "admin_notes" THEN Append(notes, note) ELSE user[f]]

\* body('is_active').isBoolean()
userStatusValidation(b) == b.isBoolean

\* PATCH /admin/users/:id/status
UpdateUserStatus(actor, id, b, io) ==
  LET is_active == b.is_active
      usrs == loadUsers(io)
      userIndex == findIndex(usrs, LAMBDA u : u.id = id)
      updated == pushAdminNote([usrs[userIndex] EXCEPT !.is_active = is_active],
                               is_active, actor.id)
  IN IF ~authorizeAdmin(actor)
     THEN /\ res' = Response("admin/users/status", 403)
          /\ body' = NoBody
          /\ UNCHANGED users
     ELSE IF ~userStatusValidation(b)
     THEN /\ res' = Response("admin/users/status", 400)
          /\ body' = NoBody
          /\ UNCHANGED users
     ELSE IF userIndex = 0
     THEN /\ res' = Response("admin/users/status", 404)
          /\ body' = NoBody
          /\ UNCHANGED users
     ELSE /\ users' = saveUsers([usrs EXCEPT ![userIndex] = updated], io)
          /\ res' = Response("admin/users/status", 200)
          /\ body' = UserBody(withoutPassword(updated))

\* the errors that reach the error middleware: a request body that is not
\* JSON (body-parser), a token error, an upload that is not an image
Errors ==
  { [name |-> "SyntaxError", status |-> 400, message |-> "Unexpected token",
     stack |-> "SyntaxError: Unexpected token at JSON.parse at parse (body-parser)"],
    [name |-> "JsonWebTokenError", status |-> 401, message |-> "jwt malformed",
     stack |-> "JsonWebTokenError: jwt malformed at verify (jsonwebtoken)"],
    [name |-> "Error", status |-> Null, message |-> "Hanya file gambar",
     stack |-> "Error: Hanya file gambar at fileFilter (routes/submissions.js)"] }

\* the names handleSpecificErrors answers itself, of the errors above
SpecificErrors == {"JsonWebTokenError", "TokenExpiredError", "ValidationError"}

\* err.status || err.statusCode || 500
statusOf(err) == IF err.status = Null THEN 5 * 100 ELSE err.status

developmentErrorHandler(err) ==
  [kind |-> "error", error |-> err.message, stack |-> err.stack]

productionErrorHandler(err) ==
  [kind |-> "error",
   error |-> IF statusOf(err) < 5 * 100 THEN err.message
             ELSE "Terjadi kesalahan pada server"]

\* errorHandler: the payload of the answer to a request that raised err
errorHandler(err) ==
  /\ res' = Response("error", IF err.name = "JsonWebTokenError" THEN 401
                              ELSE statusOf(err))
  /\ body' = IF err.name \in SpecificErrors
             THEN [kind |-> "error", error |-> "Token tidak valid"]
             ELSE IF NODE_ENV = "production" THEN productionErrorHandler(err)
             ELSE developmentErrorHandler(err)
  /\ UNCHANGED <<users, submissions, bankSampah>>

-----------------------------------------------------------------------------
(* routes/stats.js, GET /stats/summary of routes/submissions.js and the
   reporting routes of routes/admin.js.  Timestamps are not modelled: every
   submission falls into the current month, and created_at grows with the id. *)

\* x || 0
orZero(x) == IF x = Null THEN 0 ELSE x

\* .reduce((sum, s) => sum + (s[field] || 0), 0)
RECURSIVE sumField(_, _)
sumField(array, field) ==
  IF array = <<>> THEN 0
  ELSE orZero(Head(array)[field]) + sumField(Tail(array), field)

countStatus(array, status) == Len(SelectSeq(array, LAMBDA s : s.status = status))

completedOnly(array) == SelectSeq(array, LAMBDA s : s.status = "completed")

\* the aggregate every statistics route computes over a list of submissions
calculateStats(submissionList) ==
  [total_submissions |-> Len(submissionList),
   pending |-> countStatus(submissionList, "pending"),
   completed_submissions |-> countStatus(submissionList, "completed"),
   cancelled |-> countStatus(submissionList, "cancelled"),
   total_weight |-> sumField(submissionList, "actual_weight"),
   total_earnings |-> sumField(completedOnly(submissionList), "actual_transfer")]

\* submissions.sort((a, b) => new Date(b.created_at) - new Date(a.created_at))
sortByCreatedDesc(array) == sort(array, LAMBDA a, b : b.id - a.id)

idsOf(array) == [i \in 1..Len(array) |-> array[i].id]

\* a number divided by zero
Infinity == 0 - 20 * 1000 * 1000

\* a / b of JavaScript numbers a >= 0 and b >= 0, to the unit of a
divide(a, b) == IF b = 0 THEN (IF a = 0 THEN NaN ELSE Infinity) ELSE a \div b

\* average_submission_value of getUserStats
averageSubmissionValue(submissionList) ==
  LET paid == SelectSeq(submissionList, LAMBDA s : Truthy(s.actual_transfer))
  IN IF Len(submissionList) > 0
     THEN divide(sumField(paid, "actual_transfer"), Len(paid))
     ELSE 0

\* waste.average_per_submission of the dashboard: the number 0 or the text of
\* toFixed(2), which is "NaN" or "Infinity" for those two values
averagePerSubmission(submissionList) ==
  LET totalSubmissions == Len(submissionList)
      totalWasteProcessed ==
        sumField(SelectSeq(submissionList, LAMBDA s : Truthy(s.actual_weight)),
                 "actual_weight")
      completedSubmissions == countStatus(submissionList, "completed")
      q == divide(totalWasteProcessed, completedSubmissions)
  IN IF totalSubmissions > 0
     THEN (IF q \in {NaN, Infinity} THEN q ELSE toFixed2(q))
     ELSE 0

\* getUserStats and GET /stats/user
GetUserStats(actor, io) ==
  LET own == SelectSeq(loadSubmissions(io), LAMBDA s : s.user_id = actor.id)
  IN /\ res' = Response("stats/user", 200)
     /\ body' = [kind |-> "stats", stats |-> calculateStats(own),
                 average_submission_value |-> averageSubmissionValue(own),
                 recent_activity |-> idsOf(slice(sortByCreatedDesc(own), 0, 10))]
     /\ UNCHANGED <<users, submissions, bankSampah>>

\* GET /stats/summary of the submissions routes
GetSummary(actor, io) ==
  LET userSubmissions == SelectSeq(loadSubmissions(io), LAMBDA s : s.user_id = actor.id)
  IN /\ res' = Response("stats/summary", 200)
     /\ body' = [kind |-> "stats", stats |-> calculateStats(userSubmissions),
                 recent_activity |-> <<>>]
     /\ UNCHANGED <<users, submissions, bankSampah>>

\* GET /stats/platform
GetPlatformStats(io) ==
  LET usrs == SelectSeq(loadUsers(io), LAMBDA u : u.role = "user")
      subs == loadSubmissions(io)
      banks == loadBankSampah(io)
  IN /\ res' = Response("stats/platform", 200)
     /\ body' = [kind |-> "platform",
                 total_users |-> Len(usrs),
                 active_users |-> Len(SelectSeq(usrs, LAMBDA u : u.is_active)),
                 total_bank_sampah |-> Len(SelectSeq(banks, isActive)),
                 stats |-> calculateStats(subs)]
     /\ UNCHANGED <<users, submissions, bankSampah>>

\* GET /stats/trends/waste-types
GetTrends(io) ==
  LET subs == completedOnly(loadSubmissions(io))
  IN /\ res' = Response("stats/trends", 200)
     /\ body' = [kind |-> "trends",
                 total_submissions |-> Len(subs),
                 total_weight |-> sumField(subs, "actual_weight")]
     /\ UNCHANGED <<users, submissions, bankSampah>>

\* (n / d * 100).toFixed(1) for d > 0, in tenths of a percent: the nearest
\* tenth, a half rounded away from zero
toFixed1(n, d) ==
  LET x == IF n < 0 THEN 0 - n ELSE n
      r == (2 * x * 1000 + d) \div (2 * d)
  IN IF n < 0 THEN 0 - r ELSE r

\* the percentage cut off after the first decimal
calculateChangeTruncating(current, previous) ==
  IF previous = 0 THEN (IF current > 0 THEN 100 * 10 ELSE 0)
  ELSE IF current < previous THEN 0 - (((previous - current) * 1000) \div previous)
  ELSE ((current - previous) * 1000) \div previous

\* calculateChange, in tenths of a percent (the source answers the number 100
\* or 0, or the text of toFixed(1))
calculateChange(current, previous) ==
  IF previous = 0 THEN (IF current > 0 THEN 100 * 10 ELSE 0)
  ELSE toFixed1(current - previous, previous)

\* GET /stats/comparison
GetComparison(io) ==
  LET subs == loadSubmissions(io)
      usrs == SelectSeq(loadUsers(io), LAMBDA u : u.role = "user")
      current == calculateStats(subs)
      previous == calculateStats(<<>>)
  IN /\ res' = Response("stats/comparison", 200)
     /\ body' = [kind |-> "comparison",
                 current_month |-> current,
                 previous_month |-> previous,
                 changes |->
                   [submissions |-> calculateChange(current.total_submissions,
                                                    previous.total_submissions),
                    completed |-> calculateChange(current.completed_submissions,
                                                  previous.completed_submissions)],
                 new_users |-> Len(usrs)]
     /\ UNCHANGED <<users, submissions, bankSampah>>

\* the statistics of one user of the leaderboard; co2_reduced = total_weight * 2.5,
\* in units of 0.2 weight units
leaderboardStats(user, subs) ==
  LET userSubmissions ==
        SelectSeq(subs, LAMBDA s : s.user_id = user.id /\ s.status = "completed")
  IN [id |-> user.id,
      total_weight |-> sumField(userSubmissions, "actual_weight"),
      total_earnings |-> sumField(userSubmissions, "actual_transfer"),
      total_submissions |-> Len(userSubmissions),
      co2_reduced |-> sumField(userSubmissions, "actual_weight") * 5,
      rank |-> Null]

\* the compare function of the switch on the leaderboard type
compareByType(type, a, b) ==
  IF type = "earnings" THEN b.total_earnings - a.total_earnings
  ELSE IF type = "submissions" THEN b.total_submissions - a.total_submissions
  ELSE IF type = "environmental" THEN b.co2_reduced - a.co2_reduced
  ELSE b.total_weight - a.total_weight

\* { ...user, rank }
withRank(user, rank) == [user EXCEPT !.rank = rank]

\* current_user_rank: null
NoRank ==
  [id |-> Null, total_weight |-> Null, total_earnings |-> Null,
   total_submissions |-> Null, co2_reduced |-> Null, rank |-> Null]

\* "Find current user's position" with the index taken as the rank
currentUserRankFromZero(sortedUsers, actor) ==
  LET currentUserIndex == findIndex(sortedUsers, LAMBDA u : u.id = actor.id)
  IN IF currentUserIndex = 0 THEN NoRank
     ELSE withRank(sortedUsers[currentUserIndex], currentUserIndex - 1)

\* "Find current user's position if authenticated"
currentUserRank(sortedUsers, actor) ==
  LET currentUserIndex == findIndex(sortedUsers, LAMBDA u : u.id = actor.id)
  IN IF currentUserIndex = 0 THEN NoRank
     ELSE withRank(sortedUsers[currentUserIndex], currentUserIndex)

\* GET /stats/leaderboard
GetLeaderboard(actor, type, limit, io) ==
  LET usrs == SelectSeq(loadUsers(io), LAMBDA u : u.role = "user" /\ u.is_active)
      subs == loadSubmissions(io)
      userStats == map(usrs, LAMBDA user : leaderboardStats(user, subs))
      sortedUsers == sort(userStats, LAMBDA a, b : compareByType(type, a, b))
      top == slice(sortedUsers, 0, IF limit = Null THEN 10 ELSE limit)
      leaderboard == [i \in 1..Len(top) |-> withRank(top[i], i)]
  IN /\ res' = Response("stats/leaderboard", 200)
     /\ body' = [kind |-> "leaderboard",
                 leaderboard |-> leaderboard,
                 current_user_rank |-> currentUserRank(sortedUsers, actor),
                 leaderboard_type |-> type,
                 total_participants |-> Len(userStats)]
     /\ UNCHANGED <<users, submissions, bankSampah>>

\* GET /admin/dashboard with the sorted submissions written back
GetDashboardSavingSorted(actor, io) ==
  LET usrs == SelectSeq(loadUsers(io), LAMBDA u : u.role = "user")
      subs == loadSubmissions(io)
      banks == loadBankSampah(io)
      sorted == sortByCreatedDesc(subs)
  IN IF ~authorizeAdmin(actor)
     THEN /\ res' = Response("admin/dashboard", 403)
          /\ body' = NoBody
          /\ UNCHANGED <<users, submissions, bankSampah>>
     ELSE /\ res' = Response("admin/dashboard", 200)
          /\ body' = [kind |-> "dashboard",
                      total_users |-> Len(usrs),
                      active_users |-> Len(SelectSeq(usrs, LAMBDA u : u.is_active)),
                      stats |-> calculateStats(subs),
                      average_per_submission |-> averagePerSubmission(subs),
                      total_bank_sampah |-> Len(banks),
                      recent_activities |-> idsOf(slice(sorted, 0, 10))]
          /\ submissions' = saveSubmissions(sorted, io)
          /\ UNCHANGED <<users, bankSampah>>

\* GET /admin/dashboard: submissions.sort(...) sorts the loaded array, which
\* is not saved
GetDashboard(actor, io) ==
  LET usrs == SelectSeq(loadUsers(io), LAMBDA u : u.role = "user")
      subs == loadSubmissions(io)
      banks == loadBankSampah(io)
      sorted == sortByCreatedDesc(subs)
  IN IF ~authorizeAdmin(actor)
     THEN /\ res' = Response("admin/dashboard", 403)
          /\ body' = NoBody
          /\ UNCHANGED <<users, submissions, bankSampah>>
     ELSE /\ res' = Response("admin/dashboard", 200)
          /\ body' = [kind |-> "dashboard",
                      total_users |-> Len(usrs),
                      active_users |-> Len(SelectSeq(usrs, LAMBDA u : u.is_active)),
                      stats |-> calculateStats(subs),
                      average_per_submission |-> averagePerSubmission(subs),
                      total_bank_sampah |-> Len(banks),
                      recent_activities |-> idsOf(slice(sorted, 0, 10))]
          /\ UNCHANGED <<users, submissions, bankSampah>>

REPORT_TYPES == {"financial", "waste", "users"}

\* GET /admin/reports/:type
GetReport(actor, type, io) ==
  LET subs == loadSubmissions(io)
      usrs == SelectSeq(loadUsers(io), LAMBDA u : u.role = "user")
  IN IF ~authorizeAdmin(actor)
     THEN /\ res' = Response("admin/reports", 403)
          /\ body' = NoBody
          /\ UNCHANGED <<users, submissions, bankSampah>>
     ELSE IF type \notin REPORT_TYPES
     THEN /\ res' = Response("admin/reports", 400)
          /\ body' = NoBody
          /\ UNCHANGED <<users, submissions, bankSampah>>
     ELSE /\ res' = Response("admin/reports", 200)
          /\ body' = [kind |-> "report", report_type |-> type,
                      total_submissions |-> Len(subs),
                      completed_submissions |-> countStatus(subs, "completed"),
                      total_revenue |-> sumField(completedOnly(subs), "platform_fee"),
                      total_payouts |-> sumField(completedOnly(subs), "actual_transfer"),
                      total_weight |-> sumField(subs, "actual_weight"),
                      total_users |-> Len(usrs),
                      active_users |-> Len(SelectSeq(usrs, LAMBDA u : u.is_active))]
          /\ UNCHANGED <<users, submissions, bankSampah>>

-----------------------------------------------------------------------------
(* routes/submissions.js: GET / and GET /:id, behind authenticateToken *)

\* the filter with the owner test left out
ownedByAnyone(sub, actor) == TRUE

\* sub.user_id === req.user.id
ownedBy(sub, actor) == sub.user_id = actor.id

GetSubmissions(actor, io) ==
  LET userSubmissions ==
        sortByCreatedDesc(SelectSeq(loadSubmissions(io), LAMBDA sub : ownedBy(sub, actor)))
  IN /\ res' = Response("submissions", 200)
     /\ body' = [kind |-> "submissions", submissions |-> userSubmissions,
                 total |-> Len(userSubmissions)]

GetSubmission(actor, id, io) ==
  LET subs == loadSubmissions(io)
      i == findIndex(subs, LAMBDA sub : sub.id = id /\ ownedBy(sub, actor))
  IN IF i = 0
     THEN /\ res' = Response("submission", 404)
          /\ body' = NoBody
     ELSE /\ res' = Response("submission", 200)
          /\ body' = [kind |-> "submission", submission |-> subs[i]]

-----------------------------------------------------------------------------
(* Requests *)

\* the request bodies tried: the valid ones and one invalid value per validator
ValidWeight == 12 * 1000 + 345             \* 1.2345 kg
CreateInputs ==
  [waste_type : {"Botol Plastik", "Kertas"}, estimated_weight : {2 * WeightScale},
   ewallet_type : {"dana"}]
  \cup {[waste_type |-> "Emas", estimated_weight |-> 2 * WeightScale, ewallet_type |-> "dana"],
        [waste_type |-> "Kertas", estimated_weight |-> 0, ewallet_type |-> "dana"],
        [waste_type |-> "Kertas", estimated_weight |-> 2 * WeightScale,
         ewallet_type |-> "paypal"]}
StatusInputs ==
  [status : STATUS_ENUM, actual_weight : {Null}]
  \cup [status : {"verified", "completed"}, actual_weight : {ValidWeight}]
  \cup {[status |-> "confirmed", actual_weight |-> Null],
        [status |-> "verified", actual_weight |-> 0 - 5]}
AdminInputs ==
  [status : STATUS_ENUM \cup {NoStatus}, actual_weight : {Null}]
  \cup [status : {NoStatus, "verified", "completed"}, actual_weight : {ValidWeight}]
  \cup {[status |-> "confirmed", actual_weight |-> Null],
        [status |-> NoStatus, actual_weight |-> 0 - 5]}
\* the admin route is tried with every body by an admin and with one body by
\* the other users, whom authorizeAdmin turns away whatever the body
AdminRequests ==
  { r \in Actors \X AdminInputs :
      r[1].role = "admin" \/ r[2] = [status |-> "completed", actual_weight |-> Null] }
IdInputs == 1..MaxSubmissions
\* the users who submit waste in the runs explored
Creators == { a \in Actors : a.role = "user" }

Init ==
  /\ users = RegisteredUsers
  /\ submissions = <<>>
  /\ bankSampah = defaultBankSampah
  /\ res = Response("none", 0)
  /\ body = NoBody
  /\ awaiting = {}
  /\ NODE_ENV = "production"

Create ==
  /\ \E actor \in Creators, b \in CreateInputs :
       CreateSubmission(actor, b.waste_type, b.estimated_weight, b.ewallet_type, NoFault)
  /\ body' = NoBody
  /\ UNCHANGED <<awaiting, NODE_ENV>>

Status ==
  /\ \E actor \in Actors, id \in IdInputs, b \in StatusInputs :
       UpdateStatus(actor, id, b.status, b.actual_weight, NoFault)
  /\ body' = NoBody
  /\ UNCHANGED <<awaiting, NODE_ENV>>

Cancel ==
  /\ \E actor \in Actors, id \in IdInputs : CancelSubmission(actor, id, NoFault)
  /\ body' = NoBody
  /\ UNCHANGED <<awaiting, NODE_ENV>>

AdminUpdate ==
  /\ \E r \in AdminRequests, id \in IdInputs :
       AdminUpdateSubmission(r[1], id, r[2].status, r[2].actual_weight, NoFault)
  /\ body' = NoBody
  /\ UNCHANGED <<awaiting, NODE_ENV>>

Next == Create \/ Status \/ Cancel \/ AdminUpdate

Spec == Init /\ [][Next]_vars

\* the same routes on a submissions file that holds a submission created under
\* an earlier pricing table (Kertas at 1200 Rp/kg): WASTE_PRICING is a constant
\* of the running process, and the file outlives the process
EarlierSubmission ==
  LET s == newSubmission(<<>>, RegisteredUsers[2], "Kertas", 2 * WeightScale, "dana")
      price_per_kg == 12 * 100
      estimated_value == Times(s.estimated_weight, price_per_kg)
      platform_fee == PlatformFee(estimated_value)
  IN [s EXCEPT !.price_per_kg = price_per_kg,
               !.estimated_value = estimated_value,
               !.platform_fee = platform_fee,
               !.estimated_transfer = estimated_value - platform_fee]

InitPricing ==
  /\ users = RegisteredUsers
  /\ submissions = << EarlierSubmission >>
  /\ bankSampah = defaultBankSampah
  /\ res = Response("none", 0)
  /\ body = NoBody
  /\ awaiting = {}
  /\ NODE_ENV = "production"

SpecPricing == InitPricing /\ [][Next]_vars

\* create next to the profile edits that clear or set the DANA handle
ProfileInputs ==
  { [isObject |-> TRUE, ewallet_accounts |-> ("dana" :> "")],
    [isObject |-> TRUE, ewallet_accounts |-> ("dana" :> "0899")],
    [isObject |-> FALSE, ewallet_accounts |-> ("dana" :> "")] }

Profile ==
  /\ \E actor \in Creators, b \in ProfileInputs : UpdateProfile(actor, b, NoFault)
  /\ body' = NoBody
  /\ UNCHANGED <<awaiting, NODE_ENV>>

NextProfile == Create \/ Profile

SpecProfile == Init /\ [][NextProfile]_vars

\* the directory search.  No route creates a point or changes is_active: the
\* file is provisioned outside the API, here with the seeded points, each
\* active or not
ProvisionedBankSampah ==
  { [i \in 1..Len(defaultBankSampah) |->
       [defaultBankSampah[i] EXCEPT !.is_active = a[i]]] :
    a \in [1..Len(defaultBankSampah) -> BOOLEAN] }

Locations ==
  QueryPoints \cup { [latitude |-> Null, longitude |-> Null],
                     [latitude |-> NaN, longitude |-> 1104000] }
RadiusInputs == {Null, 30000, 39480, 42400}   \* absent, 3 km, 3.948 km, 4.24 km
LimitInputs == {Null, 1, 2}
\* the queries: those with a location and no text or waste-type filter, and
\* those with the filters and no location
SearchInputs ==
  { [search |-> "", jenis_sampah |-> "", kota |-> k,
     latitude |-> l.latitude, longitude |-> l.longitude, radius |-> r,
     sort_by |-> s, page |-> p, limit |-> n] :
    k \in {""}, l \in Locations, r \in RadiusInputs,
    s \in {"rating", "distance"}, p \in {Null, 2}, n \in {Null, 1} }
  \cup
  { [search |-> t, jenis_sampah |-> j, kota |-> k,
     latitude |-> Null, longitude |-> Null, radius |-> Null,
     sort_by |-> s, page |-> p, limit |-> n] :
    t \in {"", "Sejahtera", "plastik"}, j \in {"", "Kaca"},
    k \in {"", "semarang", "Solo"}, s \in {"rating", "nama"},
    p \in {Null, 2}, n \in {Null, 1} }
NearbyLocations == { l \in Locations : l.latitude # Null }

InitSearch ==
  /\ users = RegisteredUsers
  /\ submissions = <<>>
  /\ bankSampah \in ProvisionedBankSampah
  /\ res = Response("none", 0)
  /\ body = NoBody
  /\ awaiting = {}
  /\ NODE_ENV = "production"

Search ==
  /\ \E q \in SearchInputs : GetBankSampah(q, NoFault)
  /\ UNCHANGED <<awaiting, NODE_ENV>>

Nearby ==
  /\ \E l \in NearbyLocations, r \in RadiusInputs, n \in LimitInputs :
       GetNearby(l.latitude, l.longitude, r, n, NoFault)
  /\ UNCHANGED <<awaiting, NODE_ENV>>

NextSearch == Search \/ Nearby

SpecSearch == InitSearch /\ [][NextSearch]_vars

\* the statistics routes, on the users file after a third registration, with
\* the accounts of users 2 and 3 active or deactivated, and on the submissions
\* file after up to two submissions were created, weighed and completed
StatsUsers == RegisteredUsers \o << NewUser(4, "c@x.id", hash("secret1"), "0833") >>

StoredUsers ==
  { [i \in 1..Len(StatsUsers) |->
       IF i \in DOMAIN a THEN [StatsUsers[i] EXCEPT !.is_active = a[i]]
       ELSE StatsUsers[i]] :
    a \in [{2, 3} -> BOOLEAN] }

completedSubmission(subs, user, actual_weight) ==
  applyStatus(
    applyStatus(newSubmission(subs, user, "Kertas", actual_weight, "dana"),
                "verified", "", actual_weight, StatsUsers[1]),
    "completed", "", Null, StatsUsers[1])

StatsOwners == { StatsUsers[i] : i \in 2..Len(StatsUsers) }
StatsWeights == {WeightScale, 2 * WeightScale}
OneCompleted ==
  { <<completedSubmission(<<>>, u, w)>> : u \in StatsOwners, w \in StatsWeights }
TwoCompleted ==
  { Append(subs, completedSubmission(subs, u, w)) :
      subs \in OneCompleted, u \in StatsOwners, w \in StatsWeights }
StoredSubmissions == {<<>>} \cup OneCompleted \cup TwoCompleted

InitStats ==
  /\ users \in StoredUsers
  /\ submissions \in StoredSubmissions
  /\ bankSampah = defaultBankSampah
  /\ res = Response("none", 0)
  /\ body = NoBody
  /\ awaiting = {}
  /\ NODE_ENV = "production"

LeaderboardTypes == {"weight", "earnings", "submissions", "environmental"}
LeaderboardLimits == {Null, 1, 2}

Leaderboard ==
  /\ \E actor \in Actors, type \in LeaderboardTypes, limit \in LeaderboardLimits :
       GetLeaderboard(actor, type, limit, NoFault)
  /\ UNCHANGED <<awaiting, NODE_ENV>>

UserStats ==
  /\ \E actor \in Actors : GetUserStats(actor, NoFault) \/ GetSummary(actor, NoFault)
  /\ UNCHANGED <<awaiting, NODE_ENV>>

PlatformStats ==
  /\ GetPlatformStats(NoFault) \/ GetTrends(NoFault) \/ GetComparison(NoFault)
  /\ UNCHANGED <<awaiting, NODE_ENV>>

AdminStats ==
  /\ \E actor \in Actors :
       \/ GetDashboard(actor, NoFault)
       \/ \E type \in REPORT_TYPES \cup {"daily"} : GetReport(actor, type, NoFault)
  /\ UNCHANGED <<awaiting, NODE_ENV>>

NextStats == Leaderboard \/ UserStats \/ PlatformStats \/ AdminStats

SpecStats == InitStats /\ [][NextStats]_vars

\* the account requests; the requests of one account holder, user 2, and of
\* the admin
InitUsers ==
  /\ users = RegisteredUsers
  /\ submissions = <<>>
  /\ bankSampah = defaultBankSampah
  /\ res = Response("none", 0)
  /\ body = NoBody
  /\ awaiting = {}
  /\ NODE_ENV = "production"

AccountHolders == { a \in Actors : a.id = 2 }

EmailInputs == {"a@x.id", "c@x.id", "not-an-email"}
PasswordInputs == {"secret1", "short"}
NewPasswordInputs == {"secret2", "short"}

CanSuspend == Cardinality(awaiting) < MaxAwaiting

NotesCount(usrs) ==
  Cardinality({ i \in 1..Len(usrs) : "admin_notes" \in DOMAIN usrs[i] })

Register ==
  /\ CanSuspend /\ Len(users) < MaxUsers
  /\ \E email \in EmailInputs, password \in PasswordInputs :
       RegisterBegin(email, password, NoFault)
  /\ UNCHANGED <<submissions, bankSampah, NODE_ENV>>

Login ==
  /\ CanSuspend
  /\ \E email \in EmailInputs, password \in PasswordInputs \cup {""} :
       LoginBegin(email, password, NoFault)
  /\ UNCHANGED <<submissions, bankSampah, NODE_ENV>>

ChangePassword ==
  /\ CanSuspend
  /\ \E actor \in AccountHolders, current_password \in PasswordInputs,
        new_password \in NewPasswordInputs, confirm_password \in NewPasswordInputs :
       ChangePasswordBegin(actor, current_password, new_password,
                           confirm_password, NoFault)
  /\ UNCHANGED <<submissions, bankSampah, NODE_ENV>>

DeleteAccount ==
  /\ CanSuspend
  /\ \E actor \in AccountHolders, password \in PasswordInputs \cup {""} :
       DeleteAccountBegin(actor, password, NoFault)
  /\ UNCHANGED <<submissions, bankSampah, NODE_ENV>>

\* a suspended handler resumes
Registered ==
  /\ \E k \in awaiting : k.op = "register" /\ RegisterEnd(k, NoFault)
  /\ UNCHANGED <<submissions, bankSampah, NODE_ENV>>

LoggedIn ==
  /\ \E k \in awaiting : k.op = "login" /\ LoginEnd(k, NoFault)
  /\ UNCHANGED <<submissions, bankSampah, NODE_ENV>>

PasswordChanged ==
  /\ \E k \in awaiting : k.op = "password" /\ ChangePasswordEnd(k, NoFault)
  /\ UNCHANGED <<submissions, bankSampah, NODE_ENV>>

AccountDeleted ==
  /\ \E k \in awaiting : k.op = "delete" /\ DeleteAccountEnd(k, NoFault)
  /\ UNCHANGED <<submissions, bankSampah, NODE_ENV>>

UserStatusInputs == [isBoolean : BOOLEAN, is_active : BOOLEAN]

UserStatus ==
  /\ NotesCount(users) < MaxNotes
  /\ \E actor \in Actors, id \in {2, 9}, b \in UserStatusInputs :
       UpdateUserStatus(actor, id, b, NoFault)
  /\ UNCHANGED <<submissions, bankSampah, awaiting, NODE_ENV>>

ProfileEditInputs == { b \in ProfileInputs : b.ewallet_accounts["dana"] = "" }

ProfileEdit ==
  /\ \E actor \in AccountHolders, b \in ProfileEditInputs :
       /\ UpdateProfile(actor, b, NoFault)
       /\ body' = IF res'.code = 200
                  THEN UserBody(withoutPassword(
                         users'[findIndex(users', LAMBDA u : u.id = actor.id)]))
                  ELSE NoBody
  /\ UNCHANGED <<awaiting, NODE_ENV>>

RequestError ==
  /\ \E err \in Errors : errorHandler(err)
  /\ UNCHANGED <<awaiting, NODE_ENV>>

NextUsers ==
  \/ Register \/ Registered \/ ChangePassword \/ PasswordChanged
  \/ DeleteAccount \/ AccountDeleted \/ UserStatus \/ ProfileEdit

SpecUsers == InitUsers /\ [][NextUsers]_vars

\* the answers that carry a user or an error, with the server started in any
\* environment
Environments == {"production", "development", "unset"}

InitPayload ==
  /\ users = RegisteredUsers
  /\ submissions = <<>>
  /\ bankSampah = defaultBankSampah
  /\ res = Response("none", 0)
  /\ body = NoBody
  /\ awaiting = {}
  /\ NODE_ENV \in Environments

RefreshInputs == {Null, 0, 2, 9}

Refresh ==
  /\ \E refreshToken \in RefreshInputs : RefreshToken(refreshToken, NoFault)
  /\ UNCHANGED <<users, submissions, bankSampah, awaiting, NODE_ENV>>

NextPayload == Login \/ LoggedIn \/ Refresh \/ UserStatus \/ ProfileEdit \/ RequestError

SpecPayload == InitPayload /\ [][NextPayload]_vars

\* clients that sign up at the same time, one of them with the address of
\* user 2 in another letter case, while users submit waste
SignupEmails == {"c@x.id", "d@x.id", "A@x.id", "b@x.id"}

Signup ==
  /\ CanSuspend /\ Len(users) < MaxUsers
  /\ \E email \in SignupEmails : RegisterBegin(email, "secret1", NoFault)
  /\ UNCHANGED <<submissions, bankSampah, NODE_ENV>>

NextRegister == Signup \/ Registered \/ Create

SpecRegister == InitUsers /\ [][NextRegister]_vars

\* users submit waste, the statuses change, and the aggregates are read
OwnStats ==
  /\ \E actor \in Creators : GetUserStats(actor, NoFault)
  /\ UNCHANGED <<awaiting, NODE_ENV>>

Dashboard ==
  /\ \E actor \in Actors : GetDashboard(actor, NoFault)
  /\ UNCHANGED <<awaiting, NODE_ENV>>

NextRatios == Create \/ Status \/ OwnStats \/ Dashboard

SpecRatios == Init /\ [][NextRatios]_vars

\* users submit waste and read their submissions
List ==
  /\ \E actor \in Actors : GetSubmissions(actor, NoFault)
  /\ UNCHANGED <<users, submissions, bankSampah, awaiting, NODE_ENV>>

Detail ==
  /\ \E actor \in Actors, id \in IdInputs \cup {9} : GetSubmission(actor, id, NoFault)
  /\ UNCHANGED <<users, submissions, bankSampah, awaiting, NODE_ENV>>

NextReads == Create \/ List \/ Detail

SpecReads == Init /\ [][NextReads]_vars

\* calculateChange on its own, applied to the two numbers of a metric
MaxMetric == 9

InitChange ==
  /\ users = RegisteredUsers
  /\ submissions = <<>>
  /\ bankSampah = defaultBankSampah
  /\ res = Response("none", 0)
  /\ body \in { [kind |-> "metric", current |-> c, previous |-> p, change |-> Null] :
                 c \in 0..MaxMetric, p \in 0..MaxMetric }
  /\ awaiting = {}
  /\ NODE_ENV = "production"

Change ==
  /\ body.kind = "metric"
  /\ body' = [body EXCEPT !.kind = "change",
                          !.change = calculateChange(body.current, body.previous)]
  /\ res' = Response("stats/comparison", 200)
  /\ UNCHANGED <<users, submissions, bankSampah, awaiting, NODE_ENV>>

SpecChange == InitChange /\ [][Change]_vars

\* the reviews of the waste-bank points
RatingInputs == {3, 4, 5, 0, 6}
PointInputs == {1, 2, 9}

Review ==
  /\ \E actor \in Actors \cup {Anonymous}, id \in PointInputs, rating \in RatingInputs :
       SubmitReview(actor, id, rating, NoFault)
  /\ body' = NoBody
  /\ UNCHANGED <<awaiting, NODE_ENV>>

NextReview == Review

SpecReview == Init /\ [][NextReview]_vars

\* the same handlers with a storage collaborator whose reads and writes may fail
CreateIO == { io \in IO : io.readBank }
CancelIO == { io \in IO : io.readUsers /\ io.readBank }
ReviewIO == { io \in IO : io.readSubs /\ io.readUsers }
StorageRatingInputs == {3, 5, 0}
StoragePointInputs == {1}

CreateStorage ==
  /\ \E actor \in Creators, b \in CreateInputs, io \in CreateIO :
       CreateSubmission(actor, b.waste_type, b.estimated_weight, b.ewallet_type, io)
  /\ body' = NoBody
  /\ UNCHANGED <<awaiting, NODE_ENV>>

CancelStorage ==
  /\ \E actor \in Creators, id \in IdInputs, io \in CancelIO :
       CancelSubmission(actor, id, io)
  /\ body' = NoBody
  /\ UNCHANGED <<awaiting, NODE_ENV>>

ReviewStorage ==
  /\ \E actor \in Creators \cup {Anonymous}, id \in StoragePointInputs,
        rating \in StorageRatingInputs, io \in ReviewIO :
       SubmitReview(actor, id, rating, io)
  /\ body' = NoBody
  /\ UNCHANGED <<awaiting, NODE_ENV>>

NextStorage == CreateStorage \/ CancelStorage \/ ReviewStorage

SpecStorage == Init /\ [][NextStorage]_vars

-----------------------------------------------------------------------------
(* Properties of the submission lifecycle *)

TERMINAL == {"completed", "cancelled"}

Last(seq) == seq[Len(seq)]

IsPrefix(s, t) == Len(s) <= Len(t) /\ \A k \in 1..Len(s) : s[k] = t[k]

RoleOf(userId) ==
  IF \E k \in 1..Len(users) : users[k].id = userId
  THEN users[CHOOSE k \in 1..Len(users) : users[k].id = userId].role
  ELSE "none"

\* the submissions stored both before and after a step, by position
Kept == { i \in 1..Len(submissions) : i <= Len(submissions') }

\* C1: once a submission is completed or cancelled its status never changes
\* again: no later status request or admin update on it succeeds.
C1_TerminalNeverLeft ==
  [][\A i \in 1..Len(submissions) :
       submissions[i].status \in TERMINAL =>
         /\ i \in Kept
         /\ submissions'[i].status = submissions[i].status]_vars

\* C2 as stated: cancel succeeds iff the actor owns the submission and it is
\* pending; in every other case it fails with a ForbiddenError (403) and the
\* stored submissions are unchanged.
CancelAllowed(actor, id) ==
  \E i \in 1..Len(submissions) :
    /\ submissions[i].id = id
    /\ submissions[i].user_id = actor.id
    /\ submissions[i].status = "pending"

OwnedBy(actor, id) ==
  \E i \in 1..Len(submissions) :
    submissions[i].id = id /\ submissions[i].user_id = actor.id

CancelledBy(actor, id) ==
  /\ res'.code = 200
  /\ Len(submissions') = Len(submissions)
  /\ \A i \in 1..Len(submissions) :
       IF submissions[i].id = id
       THEN /\ submissions'[i].status = "cancelled"
            /\ submissions'[i].status_history =
                 Append(submissions[i].status_history,
                        historyEntry("cancelled", "Dibatalkan oleh pengguna", actor))
            /\ [submissions'[i] EXCEPT !.status = "pending",
                                       !.status_history = <<>>]
               = [submissions[i] EXCEPT !.status_history = <<>>]
       ELSE submissions'[i] = submissions[i]

C3_FeeRoundedToCents ==
  \A i \in 1..Len(submissions) :
    LET sub == submissions[i] IN
    sub.actual_weight # Null =>
      /\ sub.actual_value = Times(sub.actual_weight, sub.price_per_kg)
      /\ sub.platform_fee = Round2(sub.actual_value \div 10)
      /\ sub.actual_transfer = sub.actual_value - sub.platform_fee

\* C3 as amended: whenever actual_weight is set,
\* actual_value = actual_weight * price_per_kg, platform_fee is exactly
\* actual_value * 0.10 (not rounded) and actual_transfer = actual_value - platform_fee.
C3_FinancialsConsistent ==
  \A i \in 1..Len(submissions) :
    LET sub == submissions[i] IN
    sub.actual_weight # Null =>
      /\ sub.actual_value = Times(sub.actual_weight, sub.price_per_kg)
      /\ sub.platform_fee * 10 = sub.actual_value
      /\ sub.actual_transfer = sub.actual_value - sub.platform_fee

\* a verified submission that carries the financial fields of its actual weight
C3_Witness ==
  \E i \in 1..Len(submissions) :
    /\ submissions[i].actual_weight = ValidWeight
    /\ submissions[i].status = "verified"
    /\ submissions[i].actual_value > 0

\* C4: status_history only grows at its end, and a step that changes the status
\* of a submission appends exactly one entry, which records the new status.
C4_HistoryAppendOnly ==
  [][/\ Len(submissions') >= Len(submissions)
     /\ \A i \in 1..Len(submissions) :
          LET old == submissions[i].status_history
              new == submissions'[i].status_history
          IN /\ IsPrefix(old, new)
             /\ submissions'[i].status # submissions[i].status =>
                  /\ Len(new) = Len(old) + 1
                  /\ Last(new).status = submissions'[i].status]_vars

\* a submission whose status was changed twice after its creation
C4_Witness ==
  \E i \in 1..Len(submissions) :
    LET h == submissions[i].status_history IN
    /\ Len(h) = 3
    /\ h[1].status # h[2].status
    /\ h[2].status # h[3].status

\* C5: the status changes only along the transition table
\* pending -> confirmed -> picked_up -> verified/processed -> completed,
\* with cancellation as the only side exit.  (The table below also admits
\* pending -> picked_up, the first step of the order the source names.)
TransitionTable ==
  { <<"pending", "confirmed">>, <<"pending", "picked_up">>,
    <<"confirmed", "picked_up">>,
    <<"picked_up", "verified">>, <<"picked_up", "processed">>,
    <<"verified", "completed">>, <<"processed", "completed">> }
  \cup { <<s, "cancelled">> : s \in {"pending", "confirmed", "picked_up",
                                     "verified", "processed"} }

C5_OnlyTableTransitions ==
  [][\A i \in Kept :
       submissions'[i].status # submissions[i].status =>
         <<submissions[i].status, submissions'[i].status>> \in TransitionTable]_vars

\* C6: the status of a submission is changed only by its owner or by an admin,
\* and it becomes cancelled only by its owner while pending or by an admin
\* while it is not terminal.
C6_OnlyOwnerOrAdminChangesStatus ==
  [][\A i \in Kept :
       submissions'[i].status # submissions[i].status =>
         LET by == Last(submissions'[i].status_history).updated_by
             byOwner == by = submissions[i].user_id
             byAdmin == RoleOf(by) = "admin"
         IN /\ byOwner \/ byAdmin
            /\ submissions'[i].status = "cancelled" =>
                 \/ byOwner /\ submissions[i].status = "pending"
                 \/ byAdmin /\ submissions[i].status \notin TERMINAL]_vars

\* C9: a status or admin update that is rejected (400, 403 or 404) leaves every
\* stored submission exactly as it was.
C9_RejectedChangesNothing ==
  [][(res'.route \in {"status", "admin"} /\ res'.code \in {400, 403, 404}) =>
       submissions' = submissions]_vars

\* an admin update was rejected as invalid while a submission with recorded
\* financial fields and a status history of two entries was stored
C9_Witness ==
  /\ res = Response("admin", 400)
  /\ \E i \in 1..Len(submissions) :
       /\ submissions[i].actual_weight # Null
       /\ Len(submissions[i].status_history) = 2

-----------------------------------------------------------------------------
(* Properties of the reviews *)

\* C7: once a review has been submitted on a point, its rating is the mean of
\* the ratings of its reviews rounded to one decimal and its total_reviews is
\* the number of its reviews.
C7_RatingAndCountMatchReviews ==
  \A p \in 1..Len(bankSampah) :
    bankSampah[p].has_reviews =>
      /\ bankSampah[p].rating = averageRating(bankSampah[p].reviews)
      /\ bankSampah[p].total_reviews = Len(bankSampah[p].reviews)

\* C8: a point holds at most one review per user; a submission by a user who
\* has a review on the point replaces it in place (same position, same id, same
\* number of reviews), any other appends one review, and the stored rating of
\* the user's review is the one just submitted.
C8_OneReviewPerUser ==
  [][res'.route = "review" /\ res'.code \in {200, 201} =>
     \A actor \in Actors, id \in PointInputs, rating \in RatingInputs :
       SubmitReview(actor, id, rating, NoFault) =>
         \A p \in 1..Len(bankSampah) :
           LET old == bankSampah[p].reviews
               new == bankSampah'[p].reviews
           IN IF bankSampah[p].id # id THEN new = old
              ELSE /\ \A j, k \in 1..Len(new) :
                        new[j].user_id = new[k].user_id => j = k
                   /\ IF \E k \in 1..Len(old) : old[k].user_id = actor.id
                      THEN /\ res'.code = 200
                           /\ Len(new) = Len(old)
                           /\ \A k \in 1..Len(old) :
                                new[k] = IF old[k].user_id = actor.id
                                         THEN [old[k] EXCEPT !.rating = rating]
                                         ELSE old[k]
                      ELSE /\ res'.code = 201
                           /\ Len(new) = Len(old) + 1
                           /\ IsPrefix(old, new)
                           /\ Last(new).user_id = actor.id
                           /\ Last(new).rating = rating]_vars

\* a review was replaced on a point that holds the reviews of two users
C8_Witness ==
  /\ res = Response("review", 200)
  /\ \E p \in 1..Len(bankSampah) :
       /\ Len(bankSampah[p].reviews) = 2
       /\ bankSampah[p].total_reviews = defaultBankSampah[p].total_reviews + 2

-----------------------------------------------------------------------------
(* Properties of the storage *)

\* C10: a request whose load of a collection fails is answered with a storage
\* error (500), and no request is answered with success (200, 201) when the
\* save of its collection failed.
C10_StorageFailureSurfaced ==
  [][/\ \A actor \in Creators, b \in CreateInputs, io \in CreateIO :
          ( /\ CreateSubmission(actor, b.waste_type, b.estimated_weight,
                                b.ewallet_type, io)
            /\ submissionValidation(b.waste_type, b.estimated_weight, b.ewallet_type) )
          => /\ (~io.readSubs \/ ~io.readUsers) => res'.code = 500
             /\ ~io.write => res'.code # 201
     /\ \A actor \in Creators, id \in IdInputs, io \in CancelIO :
          CancelSubmission(actor, id, io)
          => /\ ~io.readSubs => res'.code = 500
             /\ ~io.write => res'.code # 200
     /\ \A actor \in Creators, id \in StoragePointInputs,
           rating \in StorageRatingInputs, io \in ReviewIO :
          (SubmitReview(actor, id, rating, io) /\ reviewValidation(rating))
          => /\ ~io.readBank => res'.code = 500
             /\ ~io.write => res'.code \notin {200, 201}]_vars

-----------------------------------------------------------------------------
(* Properties of the financial fields *)

\* C11: price_per_kg of a new submission is the pricing-table value of its
\* waste type; no later step changes the price_per_kg of a stored submission,
\* and a step that changes its actual_value computes it from the stored
\* price_per_kg, also when the pricing table holds another price by then.
C11_PriceSnapshot ==
  [][/\ \A i \in Kept :
          /\ submissions'[i].price_per_kg = submissions[i].price_per_kg
          /\ submissions'[i].actual_value # submissions[i].actual_value =>
               submissions'[i].actual_value =
                 Times(submissions'[i].actual_weight, submissions[i].price_per_kg)
     /\ \A i \in (Len(submissions) + 1)..Len(submissions') :
          submissions'[i].price_per_kg = WASTE_PRICING[submissions'[i].waste_type]]_vars

\* the submission of the earlier pricing table was weighed and its value is the
\* one of its own price, next to a submission created at the price of today
C11_Witness ==
  /\ Len(submissions) = 2
  /\ submissions[1].price_per_kg # WASTE_PRICING[submissions[1].waste_type]
  /\ submissions[1].actual_weight = ValidWeight
  /\ submissions[1].actual_value = Times(ValidWeight, submissions[1].price_per_kg)
  /\ submissions[2].price_per_kg = WASTE_PRICING[submissions[2].waste_type]

\* C12 as stated: a submission whose actual_weight is null has actual_value,
\* platform_fee and actual_transfer all null, and these fields become non-null
\* only in a step that sets actual_weight.
C12_AllNullUntilWeighed ==
  /\ [](\A i \in 1..Len(submissions) :
          submissions[i].actual_weight = Null =>
            /\ submissions[i].actual_value = Null
            /\ submissions[i].platform_fee = Null
            /\ submissions[i].actual_transfer = Null)
  /\ [][\A i \in Kept :
          ( \/ submissions[i].actual_value = Null /\ submissions'[i].actual_value # Null
            \/ submissions[i].platform_fee = Null /\ submissions'[i].platform_fee # Null
            \/ submissions[i].actual_transfer = Null
                 /\ submissions'[i].actual_transfer # Null )
          => submissions'[i].actual_weight # Null]_vars

\* C12 as amended: a submission whose actual_weight is null has actual_value and
\* actual_transfer null, while its platform_fee is the fee of the estimate
\* (10% of estimated_value) from its creation on; actual_value and
\* actual_transfer become non-null, and platform_fee changes, only in a step
\* that sets actual_weight.
C12_ValueAndTransferNullUntilWeighed ==
  /\ [](\A i \in 1..Len(submissions) :
          submissions[i].actual_weight = Null =>
            /\ submissions[i].actual_value = Null
            /\ submissions[i].actual_transfer = Null
            /\ submissions[i].platform_fee * 10 = submissions[i].estimated_value)
  /\ [][\A i \in Kept :
          ( \/ submissions[i].actual_value = Null /\ submissions'[i].actual_value # Null
            \/ submissions[i].actual_transfer = Null
                 /\ submissions'[i].actual_transfer # Null
            \/ submissions'[i].platform_fee # submissions[i].platform_fee )
          => submissions'[i].actual_weight # Null]_vars

\* one submission still carries only the fee of its estimate, another was weighed
C12_Witness ==
  \E i, j \in 1..Len(submissions) :
    /\ submissions[i].actual_weight = Null
    /\ submissions[i].platform_fee > 0
    /\ submissions[i].actual_value = Null
    /\ submissions[j].actual_weight = ValidWeight
    /\ submissions[j].actual_transfer > 0

\* C13: once a submission is completed or cancelled no step changes any of its
\* fields; in particular an admin update that supplies actual_weight leaves
\* its actual_weight, actual_value, platform_fee and actual_transfer as they were.
C13_TerminalFrozen ==
  [][\A i \in 1..Len(submissions) :
       submissions[i].status \in TERMINAL =>
         /\ i \in Kept
         /\ submissions'[i].actual_weight = submissions[i].actual_weight
         /\ submissions'[i].actual_value = submissions[i].actual_value
         /\ submissions'[i].platform_fee = submissions[i].platform_fee
         /\ submissions'[i].actual_transfer = submissions[i].actual_transfer
         /\ submissions'[i] = submissions[i]]_vars

-----------------------------------------------------------------------------
(* Properties of create *)

\* C14: a successful create adds exactly one record at the end of the
\* collection and leaves the others as they were; the record belongs to the
\* creating user, is pending with a status_history of the one entry pending,
\* carries the pricing-table price of its waste type,
\* estimated_value = estimated_weight * price_per_kg, platform_fee = 10% of it
\* and estimated_transfer = estimated_value - platform_fee
\* (2.0 kg at 3000/kg: 6000 / 600 / 5400).
C14_CreateYieldsPendingRecord ==
  [][(res'.route = "create" /\ res'.code = 201) =>
     \A actor \in Creators, b \in CreateInputs :
       CreateSubmission(actor, b.waste_type, b.estimated_weight, b.ewallet_type, NoFault) =>
         /\ Len(submissions') = Len(submissions) + 1
         /\ IsPrefix(submissions, submissions')
         /\ LET new == Last(submissions') IN
            /\ new.user_id = actor.id
            /\ new.waste_type = b.waste_type
            /\ new.estimated_weight = b.estimated_weight
            /\ new.status = "pending"
            /\ Len(new.status_history) = 1
            /\ new.status_history[1].status = "pending"
            /\ new.price_per_kg = WASTE_PRICING[b.waste_type]
            /\ new.estimated_value = Times(b.estimated_weight, new.price_per_kg)
            /\ new.platform_fee * 10 = new.estimated_value
            /\ new.estimated_transfer = new.estimated_value - new.platform_fee
            /\ (b.waste_type = "Botol Plastik" /\ b.estimated_weight = 2 * WeightScale) =>
                 /\ new.estimated_value = 6000 * MoneyScale
                 /\ new.platform_fee = 600 * MoneyScale
                 /\ new.estimated_transfer = 5400 * MoneyScale]_vars

\* 2.0 kg of Botol Plastik was just added to a collection that held a record
C14_Witness ==
  /\ res = Response("create", 201)
  /\ Len(submissions) = 2
  /\ Last(submissions).waste_type = "Botol Plastik"
  /\ Last(submissions).estimated_transfer = 5400 * MoneyScale
  /\ Last(submissions).status = "pending"

\* the user has no handle registered for the e-wallet type
NoHandle(actor, ewallet_type) ==
  /\ ewallet_type \in EWALLET_TYPES
  /\ \E k \in 1..Len(users) :
       users[k].id = actor.id /\ users[k].ewallet_accounts[ewallet_type] = ""

\* C15: a create whose waste type is not a key of the pricing table, whose
\* estimated weight is outside [0.1, 100] or whose user has no handle for the
\* chosen e-wallet type is answered 400 and leaves the submissions unchanged.
C15_InvalidCreateRejected ==
  [][res'.route = "create" =>
     \A actor \in Creators, b \in CreateInputs :
       ( /\ CreateSubmission(actor, b.waste_type, b.estimated_weight, b.ewallet_type,
                             NoFault)
         /\ \/ b.waste_type \notin DOMAIN WASTE_PRICING
            \/ b.estimated_weight < MIN_WEIGHT
            \/ b.estimated_weight > MAX_WEIGHT
            \/ NoHandle(actor, b.ewallet_type) )
       => /\ res'.code = 400
          /\ submissions' = submissions]_vars

\* a create was rejected for a user who had created a submission and then
\* cleared the DANA handle
C15_Witness ==
  /\ res = Response("create", 400)
  /\ \E k \in 1..Len(users), i \in 1..Len(submissions) :
       /\ users[k].ewallet_accounts["dana"] = ""
       /\ submissions[i].user_id = users[k].id
       /\ submissions[i].ewallet_type = "dana"

-----------------------------------------------------------------------------
(* Properties of the directory search *)

Tolerance == DistScale \div 100            \* 0.01 km

\* the active points of the file within the radius of the query point
WithinRadius(latitude, longitude, kota, radius) ==
  { p \in 1..Len(bankSampah) :
      /\ bankSampah[p].is_active
      /\ kota # "" => toLowerCase(bankSampah[p].kota) = toLowerCase(kota)
      /\ calculateDistance(latitude, longitude, bankSampah[p].koordinat.latitude,
                           bankSampah[p].koordinat.longitude) <= radius }

\* every point of the page is a stored active point whose distance from the
\* query point is at most radius + 0.01 km
ResultSound(latitude, longitude, radius) ==
  \A k \in 1..Len(body'.bank_sampah) :
    LET bs == body'.bank_sampah[k] IN
    /\ \E p \in 1..Len(bankSampah) : bankSampah[p].id = bs.id /\ bankSampah[p].is_active
    /\ calculateDistance(latitude, longitude, bs.koordinat.latitude,
                         bs.koordinat.longitude) <= radius + Tolerance

\* C16: in a search with coordinates and a radius every returned point is
\* active and at most radius (+ 0.01 km) away, and every active point matching
\* the other filters that is at most radius away is in the result before
\* pagination: the total counts it, and a first page that holds the whole
\* result shows it.
C16_SearchWithinRadius ==
  [][/\ \A q \in SearchInputs :
          ( /\ GetBankSampah(q, NoFault)
            /\ q.latitude \notin {Null, NaN} )
          => LET radius == IF q.radius = Null THEN 10 * DistScale ELSE q.radius
                 within == WithinRadius(q.latitude, q.longitude, q.kota, radius)
             IN /\ ResultSound(q.latitude, q.longitude, radius)
                /\ body'.total >= Cardinality(within)
                /\ (q.page = Null /\ q.limit = Null) =>
                     \A p \in within :
                       \E k \in 1..Len(body'.bank_sampah) :
                         body'.bank_sampah[k].id = bankSampah[p].id
     /\ \A l \in NearbyLocations, r \in RadiusInputs, n \in LimitInputs :
          ( /\ GetNearby(l.latitude, l.longitude, r, n, NoFault)
            /\ l.latitude # NaN )
          => LET radius == IF r = Null THEN 5 * DistScale ELSE r
                 within == WithinRadius(l.latitude, l.longitude, "", radius)
             IN /\ ResultSound(l.latitude, l.longitude, radius)
                /\ n = Null =>
                     \A p \in within :
                       \E k \in 1..Len(body'.bank_sampah) :
                         body'.bank_sampah[k].id = bankSampah[p].id]_vars

-----------------------------------------------------------------------------
(* C17: the ranks of the leaderboard *)

\* the input collection of the leaderboard: the active accounts with role user,
\* in the order of the users file
Participants == SelectSeq(users, LAMBDA u : u.role = "user" /\ u.is_active)

Completed(id) ==
  { i \in 1..Len(submissions) :
      submissions[i].user_id = id /\ submissions[i].status = "completed" }

RECURSIVE SumOver(_, _)
SumOver(S, field) ==
  IF S = {} THEN 0
  ELSE LET i == CHOOSE j \in S : TRUE
       IN (IF submissions[i][field] = Null THEN 0 ELSE submissions[i][field])
          + SumOver(S \ {i}, field)

Metric(id, type) ==
  IF type = "earnings" THEN SumOver(Completed(id), "actual_transfer")
  ELSE IF type = "submissions" THEN Cardinality(Completed(id))
  ELSE SumOver(Completed(id), "actual_weight")

PositionOf(id) == CHOOSE i \in 1..Len(Participants) : Participants[i].id = id

\* 1 plus the position in the stable descending sort: the participants with a
\* greater metric, and those with an equal metric that come earlier in the file
StableRank(id, type) ==
  1 + Cardinality({ j \in 1..Len(Participants) :
        \/ Metric(Participants[j].id, type) > Metric(id, type)
        \/ /\ Metric(Participants[j].id, type) = Metric(id, type)
           /\ j < PositionOf(id) })

IsParticipant(id) == \E i \in 1..Len(Participants) : Participants[i].id = id

\* C17: every rank the leaderboard reports, in the top-N list and as
\* current_user_rank, is 1 plus the user's position in the stable descending
\* sort of the active users by the selected metric; the requesting active
\* user's own rank is reported also when it is greater than N.
C17_LeaderboardRanks ==
  [][body'.kind = "leaderboard" =>
       \A actor \in Actors, limit \in LeaderboardLimits :
         GetLeaderboard(actor, body'.leaderboard_type, limit, NoFault) =>
           LET N == IF limit = Null THEN 10 ELSE limit
               type == body'.leaderboard_type
               top == body'.leaderboard
           IN /\ Len(top) = (IF Len(Participants) < N THEN Len(Participants) ELSE N)
              /\ \A i \in 1..Len(top) :
                   /\ IsParticipant(top[i].id)
                   /\ top[i].rank = i
                   /\ top[i].rank = StableRank(top[i].id, type)
              /\ IsParticipant(actor.id) =>
                   /\ body'.current_user_rank.id = actor.id
                   /\ body'.current_user_rank.rank = StableRank(actor.id, type)]_vars

\* a tie kept in file order in the list, and the requesting user's own rank 3
\* reported beyond a list of two
C17_Witness ==
  /\ res.route = "stats/leaderboard"
  /\ body.kind = "leaderboard"
  /\ Len(body.leaderboard) = 2
  /\ body.leaderboard[1].total_weight = body.leaderboard[2].total_weight
  /\ body.leaderboard[1].total_weight > 0
  /\ body.leaderboard[1].id < body.leaderboard[2].id
  /\ body.current_user_rank.rank = 3

-----------------------------------------------------------------------------
(* C18: the statistics and reporting routes only read *)

StatsRoutes ==
  {"stats/user", "stats/platform", "stats/leaderboard", "stats/trends",
   "stats/comparison", "stats/summary", "admin/dashboard", "admin/reports"}

\* C18: no statistics or reporting request (user stats, platform stats,
\* leaderboard, waste-type trends, comparison, admin dashboard, admin reports,
\* submission summary) changes the stored users, submissions or waste-bank
\* points, whatever its answer.
C18_StatsNeverMutate ==
  [][res'.route \in StatsRoutes =>
       /\ users' = users
       /\ submissions' = submissions
       /\ bankSampah' = bankSampah]_vars

\* the dashboard answered with the two stored submissions sorted newest first,
\* and the file still holds them oldest first
C18_Witness ==
  /\ res = Response("admin/dashboard", 200)
  /\ body.kind = "dashboard"
  /\ body.recent_activities = <<2, 1>>
  /\ idsOf(submissions) = <<1, 2>>

-----------------------------------------------------------------------------
(* C19: user records are never removed *)

UserIds(usrs) == { usrs[i].id : i \in 1..Len(usrs) }

\* C19: no request removes a user record: over any register, profile edit,
\* password change, account deletion and admin status toggle, every stored
\* user id is still stored afterwards.
C19_UserIdsNeverShrink ==
  [][UserIds(users) \subseteq UserIds(users')]_vars

-----------------------------------------------------------------------------
(* C20: no payload carries a hashed password or a stack trace *)

\* C20: no response payload, of a success or of an error, contains a user's
\* hashed password or an error stack trace.
C20_NoInternalFields ==
  /\ "stack" \notin DOMAIN body
  /\ "password" \notin DOMAIN body
  /\ "user" \in DOMAIN body => "password" \notin DOMAIN body.user

-----------------------------------------------------------------------------
(* C21: lost updates between concurrent writers of the users file *)

\* a suspended handler resumes
Resumed(k) ==
  \/ k.op = "register" /\ RegisterEnd(k, NoFault)
  \/ k.op = "password" /\ ChangePasswordEnd(k, NoFault)
  \/ k.op = "delete" /\ DeleteAccountEnd(k, NoFault)

\* the field a resumed handler sets in its own user's record
OwnField(op) == IF op = "delete" THEN "is_active" ELSE "password"

Without(user, f) == [g \in DOMAIN user \ {f} |-> user[g]]

\* C21: requests on the users file interleave as load, load, save, save, and
\* the second save overwrites the first: whenever a suspended handler resumes
\* and saves, the file holds the array that handler loaded with its own change
\* only, so whatever another request saved after that load is lost; nothing
\* prevents the step.
C21_SecondSaveOverwritesFirst ==
  [][\A k \in awaiting :
       (Resumed(k) /\ res'.code \in {200, 201}) =>
         /\ Len(users') = Len(k.users) + (IF k.op = "register" THEN 1 ELSE 0)
         /\ \A i \in 1..Len(k.users) :
              IF k.users[i].id = k.id
              THEN Without(users'[i], OwnField(k.op)) = Without(k.users[i], OwnField(k.op))
              ELSE users'[i] = k.users[i]]_vars

\* a password change of user 2 was answered 200 and the file has user 2 active
\* and without admin notes, although an admin deactivation of user 2 had been
\* saved after the password change loaded the file: a request that read the
\* file in between still holds the deactivated record
C21_Witness ==
  /\ res = Response("users/password", 200)
  /\ users[2].password = hash("secret2")
  /\ users[2].is_active
  /\ "admin_notes" \notin DOMAIN users[2]
  /\ \E k \in awaiting :
       /\ ~k.users[2].is_active
       /\ "admin_notes" \in DOMAIN k.users[2]
       /\ k.users[2].password = hash("secret1")

-----------------------------------------------------------------------------
(* C22: the distance the radius filter and the distance sort use *)

\* the unrounded distance of a returned point from the query point
Exact(latitude, longitude, bs) ==
  calculateDistance(latitude, longitude, bs.koordinat.latitude, bs.koordinat.longitude)

\* every returned point is at most radius away by its unrounded distance, and
\* a page sorted by distance ascends in the unrounded distances
ExactlyFiltered(latitude, longitude, radius, byDistance) ==
  LET page == body'.bank_sampah
  IN /\ \A k \in 1..Len(page) : Exact(latitude, longitude, page[k]) <= radius
     /\ byDistance =>
          \A k \in 1..(Len(page) - 1) :
            Exact(latitude, longitude, page[k]) <= Exact(latitude, longitude, page[k + 1])

\* C22: the radius filter and the distance sort of the directory search use
\* the unrounded distance: a point whose exact distance is greater than the
\* radius is excluded even if its 2-decimal rounding equals the radius, and
\* points are ordered by their exact distances.
C22_UnroundedDistanceUsed ==
  [][/\ \A q \in SearchInputs :
          ( /\ GetBankSampah(q, NoFault)
            /\ q.latitude \notin {Null, NaN} )
          => ExactlyFiltered(q.latitude, q.longitude,
                             IF q.radius = Null THEN 10 * DistScale ELSE q.radius,
                             q.sort_by = "distance")
     /\ \A l \in NearbyLocations, r \in RadiusInputs, n \in LimitInputs :
          ( /\ GetNearby(l.latitude, l.longitude, r, n, NoFault)
            /\ l.latitude # NaN )
          => ExactlyFiltered(l.latitude, l.longitude,
                             IF r = Null THEN 5 * DistScale ELSE r, TRUE)]_vars

-----------------------------------------------------------------------------
(* C23: filters, total and page of the directory search *)

\* the stored points that are active and pass every supplied filter
Matching(q) ==
  { p \in 1..Len(bankSampah) :
      LET bs == bankSampah[p] IN
      /\ bs.is_active
      /\ q.search # "" =>
           \E text \in {bs.nama, bs.alamat, bs.deskripsi} :
             includes(toLowerCase(text), toLowerCase(q.search))
      /\ q.kota # "" => toLowerCase(bs.kota) = toLowerCase(q.kota)
      /\ q.jenis_sampah # "" => q.jenis_sampah \in bs.jenis_sampah_diterima }

\* x comes before y in the sorted result of a query without coordinates
ComesBefore(q, x, y) ==
  IF q.sort_by \in {"distance", "nama"} THEN x < y
  ELSE \/ bankSampah[x].rating > bankSampah[y].rating
       \/ bankSampah[x].rating = bankSampah[y].rating /\ x < y

PlaceOf(q, y) == 1 + Cardinality({ x \in Matching(q) : ComesBefore(q, x, y) })

PageLength(total, offset, limit) ==
  IF total - offset <= 0 THEN 0
  ELSE IF total - offset < limit THEN total - offset ELSE limit

-----------------------------------------------------------------------------
(* C24: the month-over-month change *)

Abs(x) == IF x < 0 THEN 0 - x ELSE x

ZeroConvention ==
  (body.kind = "change" /\ body.previous = 0) =>
    body.change = IF body.current > 0 THEN 100 * 10 ELSE 0

\* C24 as stated: the reported change is exactly
\* (current - previous) / previous * 100 when previous is not 0, and 100 or 0
\* by the sign of current when previous is 0.
C24_ChangeExact ==
  /\ ZeroConvention
  /\ (body.kind = "change" /\ body.previous # 0) =>
       body.change * body.previous = (body.current - body.previous) * 1000

\* C24 amended: when previous is not 0 the reported change is
\* (current - previous) / previous * 100 rounded to one decimal, so it is
\* within 0.05 of that value; when previous is 0 it is 100 if current > 0 and
\* 0 otherwise; no division by zero occurs.
C24_ChangeRoundedToOneDecimal ==
  /\ ZeroConvention
  /\ (body.kind = "change" /\ body.previous # 0) =>
       2 * Abs(body.change * body.previous - (body.current - body.previous) * 1000)
         <= body.previous

\* from 3 to 5: 66.666... is reported as 66.7
C24_Witness ==
  /\ body.kind = "change"
  /\ body.previous = 3
  /\ body.current = 5
  /\ body.change = 667

-----------------------------------------------------------------------------
(* C25: the status and the status history agree *)

\* C25: every stored submission has a non-empty status_history whose first
\* entry is pending and whose last entry carries the submission's status.
C25_StatusIsLastHistoryEntry ==
  \A i \in 1..Len(submissions) :
    LET h == submissions[i].status_history IN
      /\ Len(h) >= 1
      /\ h[1].status = "pending"
      /\ h[Len(h)].status = submissions[i].status

\* a submission that went through two status changes after its creation
C25_Witness ==
  \E i \in 1..Len(submissions) :
    /\ Len(submissions[i].status_history) = 3
    /\ submissions[i].status = "verified"
    /\ submissions[i].status_history[2].status = "picked_up"

-----------------------------------------------------------------------------
(* C26: the ids a collection hands out *)

Distinct(ids) == \A i, j \in 1..Len(ids) : i # j => ids[i] # ids[j]

\* C26: the ids of the stored users and of the stored submissions are pairwise
\* distinct, a registration that completes stores a record whose id is
\* greater than every id the users file held just before, and a created
\* submission has an id greater than every id of the submissions file.
C26_NewIdAboveStoredIds ==
  [][/\ Distinct(idsOf(users')) /\ Distinct(idsOf(submissions'))
     /\ \A k \in awaiting :
          (k.op = "register" /\ RegisterEnd(k, NoFault)) =>
            \A i \in 1..Len(users) : body'.user.id > users[i].id
     /\ Len(submissions') = Len(submissions) + 1 =>
          \A i \in 1..Len(submissions) :
            submissions'[Len(submissions')].id > submissions[i].id]_vars

-----------------------------------------------------------------------------
(* C27: one account per address *)

\* C27: no two stored users have the same email address up to letter case.
C27_EmailsDistinctIgnoringCase ==
  \A i, j \in 1..Len(users) :
    i # j => toLowerCase(users[i].email) # toLowerCase(users[j].email)

-----------------------------------------------------------------------------
(* C28: tokens and inactive accounts *)

IsActive(usrs, id) == \E i \in 1..Len(usrs) : usrs[i].id = id /\ usrs[i].is_active

\* C28: a login or a token refresh that answers 200 with tokens is for a user
\* whose stored is_active is true at the moment of the answer, and a login
\* never turns a stored is_active from false to true.
C28_NoTokensForInactiveUser ==
  [][/\ \A k \in awaiting :
          (k.op = "login" /\ LoginEnd(k, NoFault) /\ res'.code = 200) =>
            /\ IsActive(users, k.id)
            /\ \A i \in 1..Len(users') : users'[i].is_active => IsActive(users, users'[i].id)
     /\ \A refreshToken \in RefreshInputs :
          (RefreshToken(refreshToken, NoFault) /\ UNCHANGED users /\ res'.code = 200) =>
            IsActive(users, refreshToken)]_vars

-----------------------------------------------------------------------------
(* C29: a user reads only their own submissions *)

\* C29: the list answers exactly the requester's submissions, the detail
\* answers a submission only if its user_id is the requester's id, and the
\* detail of a stored submission of another user is answered 404.
C29_OnlyOwnSubmissionsRead ==
  [][/\ \A actor \in Actors :
          GetSubmissions(actor, NoFault) =>
            /\ \A n \in 1..Len(body'.submissions) :
                 body'.submissions[n].user_id = actor.id
            /\ body'.total =
                 Cardinality({ i \in 1..Len(submissions) :
                               submissions[i].user_id = actor.id })
     /\ \A actor \in Actors, id \in IdInputs \cup {9} :
          GetSubmission(actor, id, NoFault) =>
            /\ res'.code = 200 =>
                 /\ body'.submission.user_id = actor.id
                 /\ body'.submission.id = id
            /\ (\E i \in 1..Len(submissions) :
                  submissions[i].id = id /\ submissions[i].user_id # actor.id) =>
                 res'.code = 404]_vars

\* user 2 has listed their one submission while user 3 has one too
C29_Witness ==
  /\ res = Response("submissions", 200)
  /\ Len(submissions) = 2
  /\ submissions[1].user_id = 3
  /\ body.total = 1
  /\ body.submissions[1].user_id = 2

-----------------------------------------------------------------------------
(* C30: the ratios of the aggregates *)

\* C30: getUserStats answers average_submission_value 0 for a user who has
\* submissions but none with an actual_transfer, and the dashboard answers
\* average_per_submission 0 when there are submissions but none is completed.
C30_RatiosZeroWithoutDivisor ==
  [][/\ \A actor \in Creators :
          GetUserStats(actor, NoFault) =>
            LET own == SelectSeq(submissions, LAMBDA s : s.user_id = actor.id)
            IN (Len(own) > 0 /\ \A n \in 1..Len(own) : ~Truthy(own[n].actual_transfer))
                 => body'.average_submission_value = 0
     /\ \A actor \in Actors :
          (GetDashboard(actor, NoFault) /\ res'.code = 200) =>
            ((Len(submissions) > 0 /\ countStatus(submissions, "completed") = 0)
               => body'.average_per_submission = 0)]_vars

====
